---- MODULE Spec2Model ----
(***************************************************************************)
(* Trade simulators and signal rules of the stock-selection programs:      *)
(*   main.py       run_conservative_backtest, run_aggressive_backtest      *)
(*   stock_sel.py  EnhancedStockScanner._generate_signals /                *)
(*                 _simulate_trading                                       *)
(*   n6.py         backtest_stock_history, backtest_2026_signal,           *)
(*                 scan_for_2026                                           *)
(*                                                                         *)
(* A run processes one price series bar by bar.  The series is the input:  *)
(* the close of bar i and the indicator columns at bar i are drawn when    *)
(* the loop reaches bar i, and len(df) is revealed when the loop test      *)
(* first fails; this yields the same runs as drawing the series up front.  *)
(* Where the code runs a signal loop and then a trading loop over the same *)
(* bars, a bar step is iteration i of both: the trading loop reads of the  *)
(* signal column only the entry the signal loop wrote for that bar.        *)
(*                                                                         *)
(* Prices are whole yuan.  Money is exact: a record [y, f] stands for      *)
(* y + f / 10^7 yuan, which holds every product of a whole amount with     *)
(* the cost factors of the code without rounding.                          *)
(*                                                                         *)
(* Besides the runs (Spec, SpecRules, SpecTwice, SpecHistory) the module   *)
(* has the history cache of main.py and n6.py under two callers            *)
(* (SpecCache) and the ranking of run_conservative_scanner and             *)
(* enhanced_scanner (SpecRank).  A DataFrame the cache holds is modelled   *)
(* by its columns; a caller that holds the same object writes into it.     *)
(***************************************************************************)
EXTENDS Integers, Sequences, FiniteSets, TLC

VARIABLES
    prog,           \* the entry point that runs
    pc,             \* its position: "start", "loop", "hold", "done", "rejected";
                    \* "rule", "ruled" when a signal rule is evaluated on its own
    i,              \* the bar index of the loop
    n,              \* len(df) once the loop has seen the end, else 0
    capital,        \* cash
    position,       \* shares held
    trades,         \* the trade log
    equity,         \* the equity curve (main.py)
    stop_price,     \* run_aggressive_backtest: stop of the open position, in 1/100 yuan
    entry_price,    \* _simulate_trading: price of the open position, 0 when flat
    signals,        \* _generate_signals: signals[i-1], the sticky state
    market_len,     \* run_aggressive_backtest: len(market_data), -1 for None
    volume_column,  \* _calculate_indicators: 'volume' in df.columns
    hold,           \* n6.py: the position the inner loop follows
    result,         \* what the run returns
    bar,            \* the last bar read: its close and signal, and the account before it
    twin,           \* a second run of the program on the same series
    cache,          \* DataCache.cache: cache_key -> (cache_time, data), data by its columns
    clock,          \* time.time()
    callers,        \* the calls of the cache under way
    scanner,        \* the scanner that runs, "none" for none
    results,        \* the scanner's rows in the order they were appended: their scores
    ranked          \* the rows the scanner lists, by their place in results

runVars == <<prog, pc, i, n, capital, position, trades, equity, stop_price,
             entry_price, signals, market_len, volume_column, hold, result, bar, twin>>

cacheVars == <<cache, clock, callers>>

scanVars == <<scanner, results, ranked>>

vars == <<runVars, cacheVars, scanVars>>

----------------------------------------------------------------------------
(* Bounds of the model *)

\* bars a share-based simulator trades after its warm-up
MaxBars == 4

\* bars an n6.py backtest follows a position after its entry bar
MaxHoldBars == 22

\* bars backtest_stock_history scans while flat
MaxScanBars == 3

(* Inputs *)

\* closes of a series, in yuan
Prices == {46500, 50000, 55000, 80000}

\* closes of the series the n6.py backtests read
PatternPrices == {46500, 50000, 55000}

\* closes of the bars of a holding period: the same, and one a hair above
HoldPrices == PatternPrices \cup {50002}

\* closes of bar 0 of the series _simulate_trading reads
FirstPrices == {50000, 55000}

\* closes of a flat stretch
FlatPrices == {46500, 55000}

\* values of a moving-average column
MAValues == {40000, 50000, 60000, 80000}

\* (14-bar mean gain, 14-bar mean loss) of a bar: flat, no loss, and
\* ordinary mixes giving RSI 40, 50 and 90
GainLoss == {<<0, 0>>, <<3, 0>>, <<2, 3>>, <<1, 1>>, <<9, 1>>}

----------------------------------------------------------------------------
(* Floating point values the rules compare: a number or NaN.  A comparison *)
(* with NaN is false, as in IEEE 754 and so in pandas.                     *)

NaN == [nan |-> TRUE, v |-> 0]
Num(x) == [nan |-> FALSE, v |-> x]

LT(a, b) == ~a.nan /\ ~b.nan /\ a.v < b.v
GT(a, b) == ~a.nan /\ ~b.nan /\ a.v > b.v

\* a * k, for the comparisons against a column scaled by k/100
Times(a, k) == IF a.nan THEN NaN ELSE Num(a.v * k)

\* a rolling column that is defined from its first bar
RollingFromFirstBar(w, idx, x) == Num(x)

\* column.rolling(w).mean().iloc[idx]: undefined on the first w-1 bars
Rolling(w, idx, x) == IF idx < w - 1 THEN NaN ELSE Num(x)

(* RSI.  gain and loss are the 14-bar means; rs = gain / loss is a float   *)
(* division of non-negative numbers: x/0 is inf, 0/0 is NaN.               *)

RS(gain, loss) ==
    IF gain.nan \/ loss.nan THEN [kind |-> "nan", num |-> 0, den |-> 1]
    ELSE IF loss.v = 0
         THEN IF gain.v = 0 THEN [kind |-> "nan", num |-> 0, den |-> 1]
                            ELSE [kind |-> "inf", num |-> 0, den |-> 1]
         ELSE [kind |-> "num", num |-> gain.v, den |-> loss.v]

\* 100 - 100 / (1 + rs), an exact fraction num/den; 100/(1+inf) is 0
RSI(gain, loss) ==
    LET rs == RS(gain, loss) IN
    IF rs.kind = "nan" THEN [nan |-> TRUE, num |-> 0, den |-> 1]
    ELSE IF rs.kind = "inf" THEN [nan |-> FALSE, num |-> 100, den |-> 1]
    ELSE [nan |-> FALSE, num |-> 100 * rs.num, den |-> rs.num + rs.den]

RsiLT(r, k) == ~r.nan /\ r.num < k * r.den
RsiGT(r, k) == ~r.nan /\ r.num > k * r.den

----------------------------------------------------------------------------
(* Money *)

E7 == 10 ^ 7

Money(y, f) == [y |-> y, f |-> f]
Yuan(y) == Money(y, 0)

Norm(y, f) == Money(y + f \div E7, f % E7)

MAdd(a, b) == Norm(a.y + b.y, a.f + b.f)
MSub(a, b) == Norm(a.y - b.y, a.f - b.f)
MLeq(a, b) == a.y < b.y \/ (a.y = b.y /\ a.f <= b.f)

\* amt * m / 10^7 for a whole amount amt >= 0 and a factor m < 10^5
Frac(amt, m) ==
    LET a == amt \div 1000
        b == amt % 1000
    IN  Norm((a * m) \div 10000, ((a * m) % 10000) * 1000 + b * m)

\* int(c / price): the whole cash, whatever fraction the caller names
SharesOfAllCash(c, num, den, price) == c.y \div price

\* int(c * num / den / price) for money c
Shares(c, num, den, price) == (num * c.y + (num * c.f) \div E7) \div (den * price)

----------------------------------------------------------------------------
(* Trade records *)

Buy(price, shares) == [action |-> "BUY", price |-> price, shares |-> shares]
\* a sale that leaves one share out of the log
SellShort(price, shares) == [action |-> "SELL", price |-> price, shares |-> shares - 1]
Sell(price, shares) == [action |-> "SELL", price |-> price, shares |-> shares]
BuyFor(price, shares, reason) ==
    [action |-> "BUY", price |-> price, shares |-> shares, reason |-> reason]
SellFor(price, shares, reason) ==
    [action |-> "SELL", price |-> price, shares |-> shares, reason |-> reason]

\* an account: what a trading loop carries from bar to bar
Account(c, p, t) == [capital |-> c, position |-> p, trades |-> t]

\* an equity point that leaves the shares out
TotalCashOnly(c, p, price) == c

\* capital + (position * price if position > 0 else 0)
Total(c, p, price) == MAdd(c, IF p > 0 THEN Yuan(p * price) ELSE Yuan(0))

InitialCapital == 100000

----------------------------------------------------------------------------
(* main.py: run_conservative_backtest *)

ConservativeWarmup == 60

\* buy_conditions and sell_conditions of the signal loop at one bar
ConservativeBuy(close, ma20, ma60, rsi) ==
    /\ LT(Times(close, 100), Times(ma20, 102))
    /\ GT(close, ma60)
    /\ RsiLT(rsi, 50)
    /\ RsiGT(rsi, 30)

ConservativeSell(close, ma20, rsi) ==
    \/ GT(Times(close, 100), Times(ma20, 115))
    \/ RsiGT(rsi, 70)

\* the signal with the sell conditions tried first
ConservativeSignalExitFirst(close, ma20, ma60, rsi) ==
    IF ConservativeSell(close, ma20, rsi) THEN -1
    ELSE IF ConservativeBuy(close, ma20, ma60, rsi) THEN 1
    ELSE 0

\* df['signal'] at the bar: if all(buy_conditions) ... elif any(sell_conditions)
ConservativeSignal(close, ma20, ma60, rsi) ==
    IF ConservativeBuy(close, ma20, ma60, rsi) THEN 1
    ELSE IF ConservativeSell(close, ma20, rsi) THEN -1
    ELSE 0

\* shares * price * 1.001 and position * price * 0.999
MainCost(amt) == MAdd(Yuan(amt), Frac(amt, 10000))
MainValue(amt) == MSub(Yuan(amt), Frac(amt, 10000))

\* the buy branch without its position == 0 test
ConservativeMayBuyAnyPosition(signal, pos) == signal = 1

ConservativeMayBuy(signal, pos) == signal = 1 /\ pos = 0

\* the trading loop's body without the shares > 0 test
ConservativeTradeUnsized(a, price, signal) ==
    IF ConservativeMayBuy(signal, a.position)
    THEN LET shares == Shares(a.capital, 7, 10, price) IN
         Account(MSub(a.capital, MainCost(shares * price)), shares,
                 Append(a.trades, Buy(price, shares)))
    ELSE IF signal = -1 /\ a.position > 0
    THEN Account(MAdd(a.capital, MainValue(a.position * price)), 0,
                 Append(a.trades, Sell(price, a.position)))
    ELSE a

\* the trading loop's body for one bar
ConservativeTrade(a, price, signal) ==
    IF ConservativeMayBuy(signal, a.position)
    THEN LET shares == Shares(a.capital, 7, 10, price) IN
         IF shares > 0
         THEN Account(MSub(a.capital, MainCost(shares * price)), shares,
                      Append(a.trades, Buy(price, shares)))
         ELSE a
    ELSE IF signal = -1 /\ a.position > 0
    THEN Account(MAdd(a.capital, MainValue(a.position * price)), 0,
                 Append(a.trades, Sell(price, a.position)))
    ELSE a

----------------------------------------------------------------------------
(* main.py: run_aggressive_backtest *)

AggressiveWarmup == 30

\* the market test without its guards: a bar the index lacks reads as a bar
\* above the mean
MarketAboveAssumed(mlen, idx, mclose, mma20) == mclose > mma20

\* market_above_ma20 at bar idx; mlen is len(market_data), -1 for None
MarketAbove(mlen, idx, mclose, mma20) ==
    IF mlen # -1 /\ idx < mlen
    THEN LET market_ma20 == IF idx >= 20 THEN Rolling(20, idx, mma20) ELSE Num(0) IN
         IF GT(market_ma20, Num(0)) THEN GT(Num(mclose), market_ma20) ELSE FALSE
    ELSE FALSE

\* 0.02 < pullback < 0.10, pullback = (recent_high - close) / recent_high
PullbackInBand(close, recent_high) ==
    LET num == 100 * (recent_high.v - close.v)
        high == recent_high.v
    IN  /\ ~close.nan /\ ~recent_high.nan
        /\ \/ high > 0 /\ 2 * high < num /\ num < 10 * high
           \/ high < 0 /\ 2 * high > num /\ num > 10 * high

AggressiveBuy(close, ma5, ma10, ma20, recent_high, rsi, market_above) ==
    /\ GT(ma5, ma10)
    /\ GT(ma10, ma20)
    /\ GT(close, ma20)
    /\ PullbackInBand(close, recent_high)
    /\ RsiLT(rsi, 60)
    /\ RsiGT(rsi, 40)
    /\ market_above

AggressiveSell(close, ma20, rsi, market_above) ==
    \/ LT(Times(close, 100), Times(ma20, 95))
    \/ RsiGT(rsi, 75)
    \/ ~market_above

AggressiveSignal(close, ma5, ma10, ma20, recent_high, rsi, market_above) ==
    IF AggressiveBuy(close, ma5, ma10, ma20, recent_high, rsi, market_above) THEN 1
    ELSE IF AggressiveSell(close, ma20, rsi, market_above) THEN -1
    ELSE 0

\* df['stop_loss'] at the bar, in 1/100 yuan: close * 0.93 on a buy signal, else 0.0
StopLossColumn(price, signal) == IF signal = 1 THEN 93 * price ELSE 0

\* the stop test with <= for <
AggressiveStopHitInclusive(price, stop) == 100 * price <= stop

\* price < stop_price
AggressiveStopHit(price, stop) == 100 * price < stop

Stopped(c, p, t, s) == [capital |-> c, position |-> p, trades |-> t, stop_price |-> s]

\* the stop-loss check that opens the trading loop's body
AggressiveStop(a, price) ==
    IF a.position > 0 /\ AggressiveStopHit(price, a.stop_price)
    THEN Stopped(MAdd(a.capital, MainValue(a.position * price)), 0,
                 Append(a.trades, SellFor(price, a.position, "stop_loss")), 0)
    ELSE a

AggressiveMayBuy(signal, pos) == signal = 1 /\ pos = 0

\* the branches with the stop re-read from the stop_loss column on every
\* buy signal
AggressiveOrderMovingStop(a, price, signal) ==
    IF AggressiveMayBuy(signal, a.position)
    THEN LET shares == Shares(a.capital, 7, 10, price) IN
         IF shares > 0
         THEN Stopped(MSub(a.capital, MainCost(shares * price)), shares,
                      Append(a.trades, BuyFor(price, shares, "signal")),
                      StopLossColumn(price, signal))
         ELSE a
    ELSE IF signal = -1 /\ a.position > 0
    THEN Stopped(MAdd(a.capital, MainValue(a.position * price)), 0,
                 Append(a.trades, SellFor(price, a.position, "signal")), 0)
    ELSE IF signal = 1
    THEN [a EXCEPT !.stop_price = StopLossColumn(price, signal)]
    ELSE a

\* the buy / sell branches that follow it
AggressiveOrder(a, price, signal) ==
    IF AggressiveMayBuy(signal, a.position)
    THEN LET shares == Shares(a.capital, 7, 10, price) IN
         IF shares > 0
         THEN Stopped(MSub(a.capital, MainCost(shares * price)), shares,
                      Append(a.trades, BuyFor(price, shares, "signal")),
                      StopLossColumn(price, signal))
         ELSE a
    ELSE IF signal = -1 /\ a.position > 0
    THEN Stopped(MAdd(a.capital, MainValue(a.position * price)), 0,
                 Append(a.trades, SellFor(price, a.position, "signal")), 0)
    ELSE a

\* a body whose stop-loss sale ends the bar
AggressiveTradeStopEndsBar(a, price, signal) ==
    IF a.position > 0 /\ AggressiveStopHit(price, a.stop_price)
    THEN AggressiveStop(a, price)
    ELSE AggressiveOrder(a, price, signal)

AggressiveTrade(a, price, signal) == AggressiveOrder(AggressiveStop(a, price), price, signal)

----------------------------------------------------------------------------
(* stock_sel.py: EnhancedStockScanner._generate_signals, _simulate_trading *)

SignalsWarmup == 20

\* df['volume'] / df['volume_ma5'] > 1.2; 0/0 is NaN
VolumeRatio(volume, volume_ma5) ==
    IF volume.nan \/ volume_ma5.nan \/ (volume.v = 0 /\ volume_ma5.v = 0)
    THEN [nan |-> TRUE, num |-> 0, den |-> 1]
    ELSE [nan |-> FALSE, num |-> volume.v, den |-> volume_ma5.v]

\* buy_conditions with every condition appended, NaN or not
GenerateBuyAllAppended(close, ma20, ma60, rsi, has_volume, volume_ratio, hist, hist_prev) ==
    /\ GT(close, ma20)
    /\ GT(ma20, ma60)
    /\ RsiGT(rsi, 40) /\ RsiLT(rsi, 70)
    /\ (has_volume => ~volume_ratio.nan /\ 10 * volume_ratio.num > 12 * volume_ratio.den)
    /\ GT(hist, hist_prev)

\* buy_conditions: a condition on a column is appended only if the column
\* is there and its value at the bar is not NaN
GenerateBuy(close, ma20, ma60, rsi, has_volume, volume_ratio, hist, hist_prev) ==
    /\ GT(close, ma20)
    /\ GT(ma20, ma60)
    /\ (~rsi.nan => RsiGT(rsi, 40) /\ RsiLT(rsi, 70))
    /\ (has_volume /\ ~volume_ratio.nan => 10 * volume_ratio.num > 12 * volume_ratio.den)
    /\ (~hist.nan /\ ~hist_prev.nan => GT(hist, hist_prev))

GenerateSell(close, ma20, rsi) ==
    \/ LT(close, ma20)
    \/ (~rsi.nan /\ RsiGT(rsi, 80))

\* signals[idx], given signals[idx-1]; the list starts as all 0 and the
\* loop runs from bar 20
GenerateSignal(idx, prev, close, ma20, ma60, rsi, has_volume, volume_ratio, hist, hist_prev) ==
    IF idx < SignalsWarmup THEN 0
    ELSE IF GenerateBuy(close, ma20, ma60, rsi, has_volume, volume_ratio, hist, hist_prev) THEN 1
    ELSE IF GenerateSell(close, ma20, rsi) THEN 0
    ELSE prev

\* cost = shares * price * (1 + slippage), slippage = 0.001
SimCost(amt) == MAdd(Yuan(amt), Frac(amt, 10000))
\* exit_value = position * price * (1 - slippage)
SimExitValue(amt) == MSub(Yuan(amt), Frac(amt, 10000))
\* a sale or purchase that pays no commission
SimCommissionFree(x) == Yuan(0)

\* x * commission_rate, commission_rate = 0.0003, for x a multiple of 0.001
SimCommission(x) == MAdd(Frac(x.y, 3000), Money(0, (x.f \div 10000) * 3))

Dated(t, date, value) ==
    [date |-> date, action |-> t.action, price |-> t.price, shares |-> t.shares,
     value |-> value, reason |-> t.reason]

Entered(c, p, t, e) == [capital |-> c, position |-> p, trades |-> t, entry_price |-> e]

\* price < entry_price * (1 - stop_loss), stop_loss = 0.07
SimStopHit(price, entry) == 100 * price < 93 * entry

SimMayBuy(signal, pos) == signal = 1 /\ pos = 0

\* the sell branch without its position > 0 test
SimMaySellAnyPosition(signal, pos) == signal = 0

\* elif signal == 0 and position > 0
SimMaySell(signal, pos) == signal = 0 /\ pos > 0

\* the body of the trading loop for bar `date`
SimulateTrade(a, date, price, signal) ==
    IF a.position > 0 /\ a.entry_price > 0 /\ SimStopHit(price, a.entry_price)
    THEN LET exit_value == SimExitValue(a.position * price)
             commission == SimCommission(exit_value)
         IN  Entered(MAdd(a.capital, MSub(exit_value, commission)), 0,
                     Append(a.trades,
                            Dated(SellFor(price, a.position, "stop_loss"), date, exit_value)),
                     0)
    ELSE IF SimMayBuy(signal, a.position)
    THEN LET shares == Shares(a.capital, 19, 20, price)
             cost == SimCost(shares * price)
             commission == SimCommission(cost)
             total_cost == MAdd(cost, commission)
         IN  IF shares > 0 /\ MLeq(total_cost, a.capital)
             THEN Entered(MSub(a.capital, total_cost), shares,
                          Append(a.trades,
                                 Dated(BuyFor(price, shares, "signal"), date, total_cost)),
                          price)
             ELSE a
    ELSE IF SimMaySell(signal, a.position)
    THEN LET exit_value == SimExitValue(a.position * price)
             commission == SimCommission(exit_value)
         IN  Entered(MAdd(a.capital, MSub(exit_value, commission)), 0,
                     Append(a.trades,
                            Dated(SellFor(price, a.position, "signal"), date, exit_value)),
                     0)
    ELSE a

----------------------------------------------------------------------------
(* n6.py: backtest_stock_history, backtest_2026_signal *)

HistoryWarmup == 60

\* the chain with the breakout tried first
PatternSignalBreakoutFirst(pinbar, engulfing, breakout) ==
    IF breakout THEN "Breakout"
    ELSE IF pinbar THEN "Pinbar"
    ELSE IF engulfing THEN "Engulfing"
    ELSE "None"

\* the if / elif chain over is_pinbar, is_engulfing_at_support,
\* is_breakout_with_volume
PatternSignal(pinbar, engulfing, breakout) ==
    IF pinbar THEN "Pinbar"
    ELSE IF engulfing THEN "Engulfing"
    ELSE IF breakout THEN "Breakout"
    ELSE "None"

\* df['atr'].iloc[idx]: a 14-bar rolling mean
ATR(idx, x) == Rolling(14, idx, x)

\* df['atr'].iloc[i] if not pd.isna(...) else buy_price * 0.05
AtrAtBuy(atr, buy_price) == IF atr.nan THEN (buy_price * 5) \div 100 ELSE atr.v

\* the position the inner loop follows, as set at the entry bar
Entry(idx, buy_price, atr, signal) ==
    LET atr_at_buy == AtrAtBuy(atr, buy_price) IN
    [open |-> TRUE, buy_idx |-> idx, buy_price |-> buy_price, signal |-> signal,
     atr_at_buy |-> atr_at_buy,
     stop_loss |-> buy_price - 2 * atr_at_buy,
     take_profit |-> buy_price + 4 * atr_at_buy,
     highest_price |-> buy_price,
     j |-> idx + 1]

NoHold ==
    [open |-> FALSE, buy_idx |-> 0, buy_price |-> 0, signal |-> "None", atr_at_buy |-> 0,
     stop_loss |-> 0, take_profit |-> 0, highest_price |-> 0, j |-> 0]

\* highest_price = max(highest_price, current_price)
Highest(h, current_price) ==
    IF current_price > h.highest_price THEN current_price ELSE h.highest_price

\* the drawdown test without the test of highest_price before it
TrailingHitUnarmed(h, highest_price, current_price) ==
    2 * (highest_price - current_price) > 3 * h.atr_at_buy

\* (highest_price - current_price) / atr_at_buy > 1.5 once
\* highest_price > buy_price + 1 * atr_at_buy
TrailingHit(h, highest_price, current_price) ==
    /\ highest_price > h.buy_price + h.atr_at_buy
    /\ 2 * (highest_price - current_price) > 3 * h.atr_at_buy

TakeProfitHit(h, current_price) == current_price >= h.take_profit
StopLossHit(h, current_price) == current_price <= h.stop_loss
\* the time stop one bar late
TimeStopHitLate(h, j) == j - h.buy_idx > 21
TimeStopHit(h, j) == j - h.buy_idx > 20

\* the exit checks with the stop-loss tried first
HistoryExitStopFirst(h, j, current_price) ==
    IF StopLossHit(h, current_price) THEN "stop_loss"
    ELSE IF TakeProfitHit(h, current_price) THEN "take_profit"
    ELSE IF TrailingHit(h, Highest(h, current_price), current_price) THEN "trailing_stop"
    ELSE IF TimeStopHit(h, j) THEN "time_stop"
    ELSE "none"

\* the exit checks of backtest_stock_history's inner loop at bar j, in the
\* order of the code; "none" when the loop goes on
HistoryExit(h, j, current_price) ==
    IF TakeProfitHit(h, current_price) THEN "take_profit"
    ELSE IF StopLossHit(h, current_price) THEN "stop_loss"
    ELSE IF TrailingHit(h, Highest(h, current_price), current_price) THEN "trailing_stop"
    ELSE IF TimeStopHit(h, j) THEN "time_stop"
    ELSE "none"

\* the same checks in backtest_2026_signal
Signal2026Exit(h, j, current_price) ==
    IF TakeProfitHit(h, current_price) THEN "take_profit"
    ELSE IF StopLossHit(h, current_price) THEN "stop_loss"
    ELSE IF TrailingHit(h, Highest(h, current_price), current_price) THEN "trailing_stop"
    ELSE IF TimeStopHit(h, j) THEN "time_stop"
    ELSE "none"

\* round(x, 2) of the quotient num / den, in hundredths
Round2(num, den) ==
    IF num >= 0 THEN (2 * num + den) \div (2 * den)
    ELSE 0 - ((2 * (0 - num) + den) \div (2 * den))

\* round(profit_pct, 2) with profit_pct = (sell_price / buy_price - 1) * 100,
\* in hundredths of a percent
ProfitPct(buy_price, sell_price) == Round2((sell_price - buy_price) * 10000, buy_price)

\* a forced sale dated one bar past the series
ForceSellPastEnd(h, len, last_close) == [buy_idx |-> h.buy_idx, buy_price |-> h.buy_price,
    sell_idx |-> len, sell_price |-> last_close, reason |-> "force_sell",
    signal |-> h.signal, profit_pct |-> ProfitPct(h.buy_price, last_close)]

\* sell_idx = len(df) - 1, sell_reason = 'force_sell', when the loop found no exit
ForceSell(h, len, last_close) == [buy_idx |-> h.buy_idx, buy_price |-> h.buy_price,
    sell_idx |-> len - 1, sell_price |-> last_close, reason |-> "force_sell",
    signal |-> h.signal, profit_pct |-> ProfitPct(h.buy_price, last_close)]

\* a row of the trades list
Round(h, sell_idx, sell_price, sell_reason) ==
    [buy_idx |-> h.buy_idx, buy_price |-> h.buy_price, sell_idx |-> sell_idx,
     sell_price |-> sell_price, reason |-> sell_reason, signal |-> h.signal,
     profit_pct |-> ProfitPct(h.buy_price, sell_price)]

----------------------------------------------------------------------------
(* Metrics of the share-based backtests *)

IsBuy(t) == t.action = "BUY"
IsSell(t) == t.action = "SELL"

\* wins: sell_trades[k]['price'] > buy_trades[k]['price'], over
\* range(min(len(buy_trades), len(sell_trades)))
Wins(log) ==
    LET buy_trades == SelectSeq(log, IsBuy)
        sell_trades == SelectSeq(log, IsSell)
        m == IF Len(buy_trades) < Len(sell_trades) THEN Len(buy_trades) ELSE Len(sell_trades)
    IN  Cardinality({k \in 1..m : sell_trades[k].price > buy_trades[k].price})

\* the returned figures: the final value, len(buy_trades), len(sell_trades), wins
Metrics(final, log) ==
    [final |-> final, trade_count |-> Len(SelectSeq(log, IsBuy)),
     sells |-> Len(SelectSeq(log, IsSell)), wins |-> Wins(log),
     from |-> -1, base |-> 0, last |-> 0]

NoResult == [final |-> Yuan(0), trade_count |-> 0, sells |-> 0, wins |-> 0,
             from |-> -1, base |-> 0, last |-> 0]

\* the benchmark window counted from the first bar of the signal loop
BenchmarkStartAtSignals(program) ==
    CASE program = "conservative" -> 60
      [] program = "aggressive" -> 30
      [] program = "simulate" -> 20

\* the bar of df['close'].iloc[...] under df['close'].iloc[-1] in
\* benchmark_return
BenchmarkStart(program) ==
    CASE program = "conservative" -> 60
      [] program = "aggressive" -> 30
      [] program = "simulate" -> 0

\* benchmark_return = (close[-1] / close[start] - 1) * 100, as the two closes
\* and the index of the second
Benchmark(m, program, base, last) ==
    [m EXCEPT !.from = BenchmarkStart(program), !.base = base, !.last = last]

\* the close of bar idx, if that is the bar the benchmark starts at
BaseClose(program, idx, close, base) ==
    IF idx = BenchmarkStart(program) THEN close ELSE base

\* backtest_stock_history: len(df_trades) and len(win_trades), where
\* win_trades = df_trades[df_trades['盈亏%'] > 0]; nothing without trades
HistoryMetrics(log) ==
    IF Len(log) = 0 THEN NoResult
    ELSE [final |-> Yuan(0), trade_count |-> Len(log), sells |-> Len(log),
          wins |-> Cardinality({k \in 1..Len(log) : log[k].profit_pct > 0}),
          from |-> -1, base |-> 0, last |-> 0]

----------------------------------------------------------------------------
(* The runs *)

Programs == {"conservative", "aggressive", "simulate", "history", "signal2026",
             "scan2026", "recommend"}

\* what a bar step records of the bar it read and of the account before it;
\* above is close > ma60 at the bar, where a pattern filter reads it, and
\* detected what is_pinbar, is_engulfing_at_support and
\* is_breakout_with_volume return for it; base is the close the benchmark
\* return divides by, once the series has shown it
Bar(close, signal, pattern) ==
    [close |-> close, signal |-> signal, pattern |-> pattern,
     position |-> position, capital |-> capital, count |-> Len(trades),
     stop |-> IF prog = "simulate" THEN 93 * entry_price ELSE stop_price,
     above |-> FALSE, detected |-> <<FALSE, FALSE, FALSE>>, base |-> bar.base]

NoBar == [close |-> 0, signal |-> 0, pattern |-> "None", position |-> 0,
          capital |-> Yuan(0), count |-> 0, stop |-> 0, above |-> FALSE,
          detected |-> <<FALSE, FALSE, FALSE>>, base |-> 0]

\* DataCache(cache_duration=300), in seconds
CacheDuration == 300

\* instrument codes; the date range of the calls is one and the same
Codes == {"000001", "600000"}

\* f"{code}_{start_date}_{end_date}"
CacheKey(code, start_date, end_date) == <<code, start_date, end_date>>

Key(code) == CacheKey(code, "start", "end")

\* the threads that call the cache
Callers == {1, 2}

\* cache_key not in self.cache
NoEntry == [time |-> -1, data |-> {}]

\* a call that is not under way. A backtest that has its series keeps in
\* cached whether the series is the object the cache holds under the key,
\* in fetched whether the provider gave it
Idle == [pc |-> "idle", op |-> "none", todo |-> <<>>, force |-> FALSE, now |-> 0,
         cached |-> FALSE, fetched |-> FALSE]

\* no scanner runs
NoScan == scanner = "none" /\ results = <<>> /\ ranked = <<>>

\* cache = DataCache(): nothing stored, nobody calling
ColdCache ==
    /\ cache = [k \in {Key(code) : code \in Codes} |-> NoEntry]
    /\ clock = 0
    /\ callers = [c \in Callers |-> Idle]

\* what one run of a backtest carries from bar to bar
Run(c, p, t, e, s, ep, sig, h, idx, at) ==
    [capital |-> c, position |-> p, trades |-> t, equity |-> e, stop_price |-> s,
     entry_price |-> ep, signals |-> sig, hold |-> h, i |-> idx, pc |-> at]

NoRun == Run(Yuan(0), 0, <<>>, <<>>, 0, 0, 0, NoHold, 0, "start")

\* no second run; leftover is what the 'signal' column of the series holds
\* from an earlier run when the second one starts
NoTwin == [leftover |-> 0, run |-> NoRun]

Init ==
    /\ twin = NoTwin
    /\ ColdCache
    /\ NoScan
    /\ prog \in Programs
    /\ pc = "start"
    /\ i = 0
    /\ n = 0
    /\ capital = Yuan(0)
    /\ position = 0
    /\ trades = <<>>
    /\ equity = <<>>
    /\ stop_price = 0
    /\ entry_price = 0
    /\ signals = 0
    /\ market_len = -1
    /\ volume_column = FALSE
    /\ hold = NoHold
    /\ result = NoResult
    /\ bar = NoBar

\* df is None or df.empty, or len(df) < 60: return None
ConservativeReject ==
    /\ prog = "conservative" /\ pc = "start"
    /\ \E len \in {0, ConservativeWarmup - 1} : n' = len
    /\ pc' = "rejected"
    /\ UNCHANGED <<scanVars, cacheVars, twin, prog, i, capital, position, trades, equity, stop_price, entry_price,
                   signals, market_len, volume_column, hold, result, bar>>

\* len(df) >= 60: capital = 100000, position = 0, trades = [], equity = [100000]
ConservativeBegin ==
    /\ prog = "conservative" /\ pc = "start"
    /\ pc' = "loop"
    /\ i' = ConservativeWarmup
    /\ capital' = Yuan(InitialCapital)
    /\ position' = 0
    /\ trades' = <<>>
    /\ equity' = <<Yuan(InitialCapital)>>
    /\ UNCHANGED <<scanVars, cacheVars, twin, prog, n, stop_price, entry_price, signals, market_len, volume_column,
                   hold, result, bar>>

\* df['signal'] at bar idx, over the indicator columns a series with this
\* close there can have
ConservativeSignals(idx, close) ==
    {ConservativeSignal(Num(close), Rolling(20, idx, ma20), Rolling(60, idx, ma60),
                        RSI(Rolling(14, idx, gl[1]), Rolling(14, idx, gl[2]))) :
        ma20 \in MAValues, ma60 \in MAValues, gl \in GainLoss}

\* bar i of range(60, len(df)): its signal, then its trade and equity point
ConservativeBar ==
    /\ prog = "conservative" /\ pc = "loop"
    /\ i < ConservativeWarmup + MaxBars
    /\ \E close \in Prices : \E signal \in ConservativeSignals(i, close) :
         LET a == ConservativeTrade(Account(capital, position, trades), close, signal)
         IN  /\ capital' = a.capital
             /\ position' = a.position
             /\ trades' = a.trades
             /\ equity' = Append(equity, Total(a.capital, a.position, close))
             /\ bar' = [Bar(close, signal, "None") EXCEPT
                          !.base = BaseClose(prog, i, close, bar.base)]
    /\ i' = i + 1
    /\ UNCHANGED <<scanVars, cacheVars, twin, prog, pc, n, stop_price, entry_price, signals, market_len,
                   volume_column, hold, result>>

\* len(df) = 60: the loop has no bar, and df['close'].iloc[60] raises IndexError
ConservativeRaise ==
    /\ prog = "conservative" /\ pc = "loop"
    /\ i <= BenchmarkStart(prog)
    /\ n' = i
    /\ pc' = "raised"
    /\ UNCHANGED <<scanVars, cacheVars, twin, prog, i, capital, position, trades, equity, stop_price, entry_price,
                   signals, market_len, volume_column, hold, result, bar>>

\* i = len(df): the loop is over and the figures are computed
ConservativeEnd ==
    /\ prog = "conservative" /\ pc = "loop"
    /\ i > BenchmarkStart(prog)
    /\ n' = i
    /\ pc' = "done"
    /\ result' = Benchmark(Metrics(equity[Len(equity)], trades), prog, bar.base, bar.close)
    /\ UNCHANGED <<scanVars, cacheVars, twin, prog, i, capital, position, trades, equity, stop_price, entry_price,
                   signals, market_len, volume_column, hold, bar>>

\* the same for run_aggressive_backtest
AggressiveReject ==
    /\ prog = "aggressive" /\ pc = "start"
    /\ \E len \in {0, 60 - 1} : n' = len
    /\ pc' = "rejected"
    /\ UNCHANGED <<scanVars, cacheVars, twin, prog, i, capital, position, trades, equity, stop_price, entry_price,
                   signals, market_len, volume_column, hold, result, bar>>

\* market_data = cache.get_history_data('000001', ...): None, or a series
MarketLens == {-1, AggressiveWarmup + 1, AggressiveWarmup + 100}

AggressiveBegin ==
    /\ prog = "aggressive" /\ pc = "start"
    /\ pc' = "loop"
    /\ i' = AggressiveWarmup
    /\ market_len' \in MarketLens
    /\ capital' = Yuan(InitialCapital)
    /\ position' = 0
    /\ trades' = <<>>
    /\ equity' = <<Yuan(InitialCapital)>>
    /\ stop_price' = 0
    /\ UNCHANGED <<scanVars, cacheVars, twin, prog, n, entry_price, signals, volume_column, hold, result, bar>>

\* (ma5, ma10, ma20) of a bar: aligned, flat, inverted
MATriples == {<<60000, 50000, 40000>>, <<50000, 50000, 50000>>, <<40000, 50000, 60000>>}

\* closes of a bar of run_aggressive_backtest: 46000 is under the stop of an
\* entry at 50000 and within a tenth of that high
AggressivePrices == {46000, 46500, 50000, 55000}

\* (close, 20-bar mean) of the market index at a bar: above, below
MarketRows == {<<3100, 3000>>, <<2900, 3000>>}

\* df['signal'] at bar idx, over the columns a series with this close there
\* can have; recent_high is the highest of the last five closes
AggressiveSignals(idx, mlen, close) ==
    {AggressiveSignal(Num(close), Rolling(5, idx, ma[1]), Rolling(10, idx, ma[2]),
                      Rolling(20, idx, ma[3]), Rolling(5, idx, recent_high),
                      RSI(Rolling(14, idx, gl[1]), Rolling(14, idx, gl[2])),
                      MarketAbove(mlen, idx, m[1], m[2])) :
        ma \in MATriples, gl \in GainLoss, m \in MarketRows,
        recent_high \in {p \in AggressivePrices : p >= close}}

AggressiveBar ==
    /\ prog = "aggressive" /\ pc = "loop"
    /\ i < AggressiveWarmup + MaxBars
    /\ \E close \in AggressivePrices : \E signal \in AggressiveSignals(i, market_len, close) :
         LET a == AggressiveTrade(Stopped(capital, position, trades, stop_price),
                                  close, signal)
         IN  /\ capital' = a.capital
             /\ position' = a.position
             /\ trades' = a.trades
             /\ stop_price' = a.stop_price
             /\ equity' = Append(equity, Total(a.capital, a.position, close))
             /\ bar' = [Bar(close, signal, "None") EXCEPT
                          !.base = BaseClose(prog, i, close, bar.base)]
    /\ i' = i + 1
    /\ UNCHANGED <<scanVars, cacheVars, twin, prog, pc, n, entry_price, signals, market_len, volume_column, hold, result>>

\* df['signal'] of a bar deep in a flat stretch: every average is the close,
\* the 14-bar gain and loss are both 0, the market index is above its mean
\* where it has a bar
FlatSignal(mlen, idx, close) ==
    AggressiveSignal(Num(close), Num(close), Num(close), Num(close), Num(close),
                     RSI(Num(0), Num(0)), MarketAbove(mlen, idx, 3100, 3000))

\* the bars from i to 59 of a series of 60, after the bars taken one by one:
\* a flat stretch at one close. Its first bar trades as any bar does; the
\* bars after it see the same close and signal and find nothing left to do,
\* so each adds the same equity point
AggressiveFlat ==
    /\ prog = "aggressive" /\ pc = "loop"
    /\ i = AggressiveWarmup + MaxBars /\ i < 60
    /\ \E close \in FlatPrices :
         LET signal == FlatSignal(market_len, i, close)
             a == AggressiveTrade(Stopped(capital, position, trades, stop_price),
                                  close, signal)
         IN  /\ \A idx \in i..59 : FlatSignal(market_len, idx, close) = signal
             /\ AggressiveTrade(a, close, signal) = a
             /\ capital' = a.capital
             /\ position' = a.position
             /\ trades' = a.trades
             /\ stop_price' = a.stop_price
             /\ equity' = equity \o [k \in 1..(60 - i) |->
                                       Total(a.capital, a.position, close)]
             /\ bar' = Bar(close, signal, "None")
    /\ i' = 60
    /\ UNCHANGED <<scanVars, cacheVars, twin, prog, pc, n, entry_price, signals, market_len, volume_column, hold, result>>

\* i = len(df) >= 60
AggressiveEnd ==
    /\ prog = "aggressive" /\ pc = "loop"
    /\ i >= 60
    /\ n' = i
    /\ pc' = "done"
    /\ result' = Benchmark(Metrics(equity[Len(equity)], trades), prog, bar.base, bar.close)
    /\ UNCHANGED <<scanVars, cacheVars, twin, prog, i, capital, position, trades, equity, stop_price, entry_price,
                   signals, market_len, volume_column, hold, bar>>

\* advanced_backtest: df is None or df.empty: return None
SimulateReject ==
    /\ prog = "simulate" /\ pc = "start"
    /\ pc' = "rejected"
    /\ UNCHANGED <<scanVars, cacheVars, twin, prog, i, n, capital, position, trades, equity, stop_price, entry_price,
                   signals, market_len, volume_column, hold, result, bar>>

\* _simulate_trading starts: capital = 100000, position = 0, entry_price = 0;
\* bar 0 of the series is there and is not traded
SimulateBegin ==
    /\ prog = "simulate" /\ pc = "start"
    /\ pc' = "loop"
    /\ i' = 1
    /\ volume_column' \in BOOLEAN
    /\ capital' = Yuan(InitialCapital)
    /\ position' = 0
    /\ trades' = <<>>
    /\ entry_price' = 0
    /\ signals' = 0
    /\ \E close \in FirstPrices : bar' = [NoBar EXCEPT !.close = close,
                                                  !.capital = Yuan(InitialCapital),
                                                  !.base = BaseClose(prog, 0, close, 0)]
    /\ UNCHANGED <<scanVars, cacheVars, twin, prog, n, equity, stop_price, market_len, hold, result>>

\* (ma20, ma60) of a bar
MAPairs == {<<50000, 40000>>, <<60000, 50000>>, <<40000, 50000>>}

\* (volume, volume_ma5) of a bar: no volume at all, above 1.2, below
VolumeRows == {<<0, 0>>, <<3, 2>>, <<1, 1>>}

\* (macd_hist[i], macd_hist[i-1])
MacdRows == {<<2, 1>>, <<1, 2>>}

\* signals[idx], over the indicator columns a series with this close there
\* can have
GenerateSignals(idx, prev, has_volume, close) ==
    {GenerateSignal(idx, prev, Num(close), Rolling(20, idx, ma[1]), Rolling(60, idx, ma[2]),
                    RSI(Rolling(14, idx, gl[1]), Rolling(14, idx, gl[2])), has_volume,
                    VolumeRatio(Num(v[1]), Rolling(5, idx, v[2])), Num(h[1]), Num(h[2])) :
        ma \in MAPairs, gl \in GainLoss, v \in VolumeRows, h \in MacdRows}

\* bar i of range(1, len(df)): signals[i], then the trading loop's body
SimulateBar ==
    /\ prog = "simulate" /\ pc = "loop"
    /\ i < 60 + MaxBars
    /\ \E close \in Prices : \E signal \in GenerateSignals(i, signals, volume_column, close) :
         LET a == SimulateTrade(Entered(capital, position, trades, entry_price),
                                i, close, signal)
         IN  /\ signals' = signal
             /\ capital' = a.capital
             /\ position' = a.position
             /\ trades' = a.trades
             /\ entry_price' = a.entry_price
             /\ bar' = [Bar(close, signal, "None") EXCEPT
                          !.base = BaseClose(prog, i, close, bar.base)]
    /\ i' = i + 1
    /\ UNCHANGED <<scanVars, cacheVars, twin, prog, pc, n, equity, stop_price, market_len, volume_column, hold, result>>

\* final_value = capital + position * df['close'].iloc[-1], and the
\* benchmark_return that _print_short_backtest_results prints next to it
SimulateEnd ==
    /\ prog = "simulate" /\ pc = "loop"
    /\ n' = i
    /\ pc' = "done"
    /\ result' = Benchmark(Metrics(Total(capital, position, bar.close), trades),
                           prog, bar.base, bar.close)
    /\ UNCHANGED <<scanVars, cacheVars, twin, prog, i, capital, position, trades, equity, stop_price, entry_price,
                   signals, market_len, volume_column, hold, bar>>

\* backtest_stock_history: df is None or df.empty: return None
HistoryReject ==
    /\ prog = "history" /\ pc = "start"
    /\ pc' = "rejected"
    /\ UNCHANGED <<scanVars, cacheVars, twin, prog, i, n, capital, position, trades, equity, stop_price, entry_price,
                   signals, market_len, volume_column, hold, result, bar>>

\* trades = [], i = 60
HistoryBegin ==
    /\ prog = "history" /\ pc = "start"
    /\ pc' = "loop"
    /\ i' = HistoryWarmup
    /\ trades' = <<>>
    /\ UNCHANGED <<scanVars, cacheVars, twin, prog, n, capital, position, equity, stop_price, entry_price,
                   signals, market_len, volume_column, hold, result, bar>>

\* 14-bar mean true range of a bar
ATRValues == {0, 1750}

\* what the three detectors say of a bar
PatternRows == BOOLEAN \X BOOLEAN \X BOOLEAN

\* the signal of a bar, over what the detectors can say of it
PatternSignals == {PatternSignal(pat[1], pat[2], pat[3]) : pat \in PatternRows}

\* df['close'].iloc[idx] > df['ma60'].iloc[idx], over the values of ma60
AboveMA60(idx, close) == {GT(Num(close), Rolling(60, idx, ma60)) : ma60 \in MAValues}

\* the while loop's body at a bar i < len(df): an entry, or i += 1
HistoryScan ==
    /\ prog = "history" /\ pc = "loop" /\ n = 0
    /\ i < HistoryWarmup + MaxScanBars
    /\ \E close \in PatternPrices, atr \in ATRValues :
       \E pat \in PatternRows, above \in AboveMA60(i, close) :
         LET signal == PatternSignal(pat[1], pat[2], pat[3]) IN
         /\ bar' = [Bar(close, 0, signal) EXCEPT !.above = above, !.detected = pat]
         /\ IF signal # "None" /\ above
            THEN /\ hold' = Entry(i, close, ATR(i, atr), signal)
                 /\ pc' = "hold"
                 /\ i' = i
            ELSE /\ i' = i + 1
                 /\ UNCHANGED <<hold, pc>>
    /\ UNCHANGED <<scanVars, cacheVars, twin, prog, n, capital, position, trades, equity, stop_price, entry_price,
                   signals, market_len, volume_column, result>>

\* a scan that resumes on the bar of the sale
ResumeAtExit(sell_idx) == sell_idx

\* i = sell_idx + 1
Resume(sell_idx) == sell_idx + 1

\* the inner loop's body at a bar j < len(df)
HistoryHold ==
    /\ prog = "history" /\ pc = "hold" /\ hold.open
    /\ hold.j <= hold.buy_idx + MaxHoldBars
    /\ \E current_price \in HoldPrices :
         LET sell_reason == HistoryExit(hold, hold.j, current_price)
             highest_price == Highest(hold, current_price)
         IN  /\ bar' = Bar(current_price, 0, "None")
             /\ IF sell_reason # "none"
                THEN /\ trades' = Append(trades, Round(hold, hold.j, current_price, sell_reason))
                     /\ hold' = [hold EXCEPT !.open = FALSE, !.highest_price = highest_price]
                     /\ i' = Resume(hold.j)
                     /\ pc' = "loop"
                ELSE /\ hold' = [hold EXCEPT !.highest_price = highest_price, !.j = hold.j + 1]
                     /\ UNCHANGED <<trades, i, pc>>
    /\ UNCHANGED <<scanVars, cacheVars, twin, prog, n, capital, position, equity, stop_price, entry_price,
                   signals, market_len, volume_column, result>>

\* j = len(df): sell_idx is None after the inner loop
HistoryForce ==
    /\ prog = "history" /\ pc = "hold" /\ hold.open
    /\ n' = hold.j
    /\ trades' = Append(trades, ForceSell(hold, hold.j, bar.close))
    /\ hold' = [hold EXCEPT !.open = FALSE]
    /\ i' = Resume(hold.j - 1)
    /\ pc' = "loop"
    /\ UNCHANGED <<scanVars, cacheVars, twin, prog, capital, position, equity, stop_price, entry_price,
                   signals, market_len, volume_column, result, bar>>

\* i >= len(df): the while loop is over
HistoryEnd ==
    /\ prog = "history" /\ pc = "loop"
    /\ n' = IF n = 0 THEN i ELSE n
    /\ result' = HistoryMetrics(trades)
    /\ pc' = "done"
    /\ UNCHANGED <<scanVars, cacheVars, twin, prog, i, capital, position, trades, equity, stop_price, entry_price,
                   signals, market_len, volume_column, hold, bar>>

\* backtest_2026_signal: no data, or no bar of the signal date: return None
Signal2026Reject ==
    /\ prog = "signal2026" /\ pc = "start"
    /\ pc' = "rejected"
    /\ UNCHANGED <<scanVars, cacheVars, twin, prog, i, n, capital, position, trades, equity, stop_price, entry_price,
                   signals, market_len, volume_column, hold, result, bar>>

\* bars at which scan_for_2026 may have found the signal
SignalBars == {5, 60}

\* buy_price = signal_price, buy_idx = signal_idx, stops from the ATR there
Signal2026Begin ==
    /\ prog = "signal2026" /\ pc = "start"
    /\ \E signal_idx \in SignalBars, signal_price \in PatternPrices, atr \in ATRValues,
          signal_type \in {"Pinbar", "Engulfing", "Breakout"} :
         /\ hold' = Entry(signal_idx, signal_price, ATR(signal_idx, atr), signal_type)
         /\ bar' = Bar(signal_price, 0, signal_type)
         /\ i' = signal_idx
    /\ pc' = "hold"
    /\ trades' = <<>>
    /\ UNCHANGED <<scanVars, cacheVars, twin, prog, n, capital, position, equity, stop_price, entry_price,
                   signals, market_len, volume_column, result>>

Signal2026Hold ==
    /\ prog = "signal2026" /\ pc = "hold" /\ hold.open
    /\ hold.j <= hold.buy_idx + MaxHoldBars
    /\ \E current_price \in PatternPrices :
         LET sell_reason == Signal2026Exit(hold, hold.j, current_price)
             highest_price == Highest(hold, current_price)
         IN  /\ bar' = Bar(current_price, 0, "None")
             /\ IF sell_reason # "none"
                THEN /\ trades' = <<Round(hold, hold.j, current_price, sell_reason)>>
                     /\ hold' = [hold EXCEPT !.open = FALSE, !.highest_price = highest_price]
                     /\ pc' = "done"
                ELSE /\ hold' = [hold EXCEPT !.highest_price = highest_price, !.j = hold.j + 1]
                     /\ UNCHANGED <<trades, pc>>
    /\ UNCHANGED <<scanVars, cacheVars, twin, prog, i, n, capital, position, equity, stop_price, entry_price,
                   signals, market_len, volume_column, result>>

\* sell_idx is None: sell_idx = len(df) - 1, sell_reason = 'force_sell'
Signal2026Force ==
    /\ prog = "signal2026" /\ pc = "hold" /\ hold.open
    /\ n' = hold.j
    /\ trades' = <<ForceSell(hold, hold.j, bar.close)>>
    /\ hold' = [hold EXCEPT !.open = FALSE]
    /\ pc' = "done"
    /\ UNCHANGED <<scanVars, cacheVars, twin, prog, i, capital, position, equity, stop_price, entry_price,
                   signals, market_len, volume_column, result, bar>>


\* scan_for_2026 and recommend_latest for one instrument of the pool

\* what the detectors can say of bar idx: is_pinbar and
\* is_breakout_with_volume return False below bar 20, is_engulfing_at_support
\* below bar 1
PatternRowsAt(idx) ==
    {row \in PatternRows : /\ idx < 20 => (~row[1] /\ ~row[3])
                           /\ idx < 1 => ~row[2]}

\* the filter read at every bar
ScanAboveMA60Always(idx, above) == above

\* above_ma60 = close > ma60 if idx >= 60 else True
ScanAboveMA60(idx, above) == IF idx >= 60 THEN above ELSE TRUE

\* index of the first bar of 2026 in the series
ScanStarts == {0, 58}

\* kline is None, len(kline) < 60 or no bar of 2026: continue
ScanSkip ==
    /\ prog = "scan2026" /\ pc = "start"
    /\ pc' = "rejected"
    /\ UNCHANGED <<scanVars, cacheVars, twin, prog, i, n, capital, position, trades, equity, stop_price, entry_price,
                   signals, market_len, volume_column, hold, result, bar>>

\* the bars before 2026 are passed over; signals counts the rows appended
\* to results
ScanBegin ==
    /\ prog = "scan2026" /\ pc = "start"
    /\ pc' = "loop"
    /\ i' \in ScanStarts
    /\ signals' = 0
    /\ UNCHANGED <<scanVars, cacheVars, twin, prog, n, capital, position, trades, equity, stop_price, entry_price,
                   market_len, volume_column, hold, result, bar>>

\* bar idx of the loop: the first bar with a pattern ends the loop, and is
\* appended to results if above_ma60
ScanBar ==
    /\ prog = "scan2026" /\ pc = "loop"
    /\ i < 58 + MaxScanBars
    /\ \E close \in PatternPrices :
       \E pat \in PatternRowsAt(i), above \in AboveMA60(i, close) :
         LET signal == PatternSignal(pat[1], pat[2], pat[3]) IN
         /\ bar' = [Bar(close, 0, signal) EXCEPT !.above = above, !.detected = pat]
         /\ IF signal # "None"
            THEN /\ pc' = "done"
                 /\ signals' = IF ScanAboveMA60(i, above) THEN 1 ELSE 0
                 /\ i' = i
            ELSE /\ i' = i + 1
                 /\ UNCHANGED <<pc, signals>>
    /\ UNCHANGED <<scanVars, cacheVars, twin, prog, n, capital, position, trades, equity, stop_price, entry_price,
                   market_len, volume_column, hold, result>>

\* idx = len(kline): no bar of 2026 has a pattern
ScanEnd ==
    /\ prog = "scan2026" /\ pc = "loop"
    /\ i >= 60
    /\ n' = i
    /\ pc' = "done"
    /\ UNCHANGED <<scanVars, cacheVars, twin, prog, i, capital, position, trades, equity, stop_price, entry_price,
                   signals, market_len, volume_column, hold, result, bar>>

\* recommend_latest: kline is None or len(kline) < 60: continue
RecommendSkip ==
    /\ prog = "recommend" /\ pc = "start"
    /\ pc' = "rejected"
    /\ UNCHANGED <<scanVars, cacheVars, twin, prog, i, n, capital, position, trades, equity, stop_price, entry_price,
                   signals, market_len, volume_column, hold, result, bar>>

\* len(kline) of a series recommend_latest reads
RecommendLens == {60, 61, 120}

\* idx = len(kline) - 1: the last bar is appended to results if it has a
\* pattern and its close is above ma60
RecommendBar ==
    /\ prog = "recommend" /\ pc = "start"
    /\ \E len \in RecommendLens, close \in PatternPrices :
       \E pat \in PatternRowsAt(len - 1), above \in AboveMA60(len - 1, close) :
         LET signal == PatternSignal(pat[1], pat[2], pat[3]) IN
         /\ n' = len
         /\ i' = len - 1
         /\ bar' = [Bar(close, 0, signal) EXCEPT !.above = above, !.detected = pat]
         /\ signals' = IF signal # "None" /\ above THEN 1 ELSE 0
    /\ pc' = "done"
    /\ UNCHANGED <<scanVars, cacheVars, twin, prog, capital, position, trades, equity, stop_price, entry_price,
                   market_len, volume_column, hold, result>>

Next ==
    \/ ConservativeReject \/ ConservativeBegin \/ ConservativeBar
    \/ ConservativeRaise \/ ConservativeEnd
    \/ AggressiveReject \/ AggressiveBegin \/ AggressiveBar
    \/ AggressiveFlat \/ AggressiveEnd
    \/ SimulateReject \/ SimulateBegin \/ SimulateBar \/ SimulateEnd
    \/ HistoryReject \/ HistoryBegin \/ HistoryScan \/ HistoryHold
    \/ HistoryForce \/ HistoryEnd
    \/ Signal2026Reject \/ Signal2026Begin \/ Signal2026Hold \/ Signal2026Force
    \/ ScanSkip \/ ScanBegin \/ ScanBar \/ ScanEnd
    \/ RecommendSkip \/ RecommendBar

Spec == Init /\ [][Next]_vars

----------------------------------------------------------------------------
(* The signal rules on their own.  A run evaluates one rule on one row of  *)
(* the indicator columns; bar holds the row and signals the outcome (for   *)
(* _generate_signals, bar.prev holds signals[i-1]).  The                   *)
(* rules are total on floats and the series is whatever the provider       *)
(* returned, so rows include forward-adjusted, negative, prices, and the   *)
(* NaN a rolling column holds on its first bars.                           *)

RuleCloses == Prices \cup {-11000}
RuleMAs == MAValues \cup {-10000, -12000}

\* n6.py, scan_for_2026: whether the bar found is appended to the results
ScanAccept(idx, signal, close, ma60) ==
    /\ signal # "None"
    /\ IF idx >= 60 THEN GT(close, ma60) ELSE TRUE

Row(close, ma5, ma10, ma20, ma60, recent_high, gain, loss, volume_ratio, hist, hist_prev, market_above, pattern) ==
    [close |-> close, ma5 |-> ma5, ma10 |-> ma10, ma20 |-> ma20, ma60 |-> ma60,
     recent_high |-> recent_high, gain |-> gain, loss |-> loss,
     volume_ratio |-> volume_ratio, hist |-> hist, hist_prev |-> hist_prev,
     market_above |-> market_above, pattern |-> pattern, prev |-> 0]

NoRatio == VolumeRatio(NaN, NaN)

ConservativeRows(idx) ==
    {Row(Num(close), NaN, NaN, Rolling(20, idx, ma20), Rolling(60, idx, ma60), NaN,
         Rolling(14, idx, gl[1]), Rolling(14, idx, gl[2]), NoRatio, NaN, NaN, FALSE, "None") :
        close \in RuleCloses, ma20 \in RuleMAs, ma60 \in RuleMAs, gl \in GainLoss}

AggressiveRows(idx) ==
    {Row(Num(close), Rolling(5, idx, ma[1]), Rolling(10, idx, ma[2]), Rolling(20, idx, ma[3]),
         NaN, Rolling(5, idx, recent_high), Rolling(14, idx, gl[1]), Rolling(14, idx, gl[2]),
         NoRatio, NaN, NaN, MarketAbove(mlen, idx, m[1], m[2]), "None") :
        close \in RuleCloses, ma \in MATriples, gl \in GainLoss, m \in MarketRows,
        mlen \in MarketLens, recent_high \in Prices}

GenerateRows(idx) ==
    {Row(Num(close), NaN, NaN, Rolling(20, idx, ma[1]), Rolling(60, idx, ma[2]), NaN,
         Rolling(14, idx, gl[1]), Rolling(14, idx, gl[2]),
         VolumeRatio(Num(v[1]), Rolling(5, idx, v[2])), Num(h[1]), Num(h[2]), FALSE, "None") :
        close \in RuleCloses, ma \in MAPairs, gl \in GainLoss, v \in VolumeRows, h \in MacdRows}

ScanRows(idx) ==
    {Row(Num(close), NaN, NaN, NaN, Rolling(60, idx, ma60), NaN, NaN, NaN, NoRatio, NaN, NaN,
         FALSE, signal) :
        close \in PatternPrices, ma60 \in MAValues, signal \in PatternSignals}

\* bars at which a rule is evaluated
GenerateBars == {19, 20, 58, 59}
ScanBars == {20, 59, 60}

InitRules ==
    /\ twin = NoTwin
    /\ ColdCache
    /\ NoScan
    /\ prog \in {"conservative", "aggressive", "simulate", "scan2026"}
    /\ pc = "rule"
    /\ n = 0
    /\ capital = Yuan(0)
    /\ position = 0
    /\ trades = <<>>
    /\ equity = <<>>
    /\ stop_price = 0
    /\ entry_price = 0
    /\ market_len = -1
    /\ hold = NoHold
    /\ result = NoResult
    /\ \/ /\ prog = "conservative"
          /\ i = ConservativeWarmup
          /\ bar \in ConservativeRows(i)
          /\ signals = 0
          /\ volume_column = FALSE
       \/ /\ prog = "aggressive"
          /\ i = AggressiveWarmup
          /\ bar \in AggressiveRows(i)
          /\ signals = 0
          /\ volume_column = FALSE
       \/ /\ prog = "simulate"
          /\ i \in GenerateBars
          /\ signals \in {0, 1}
          /\ bar \in {[row EXCEPT !.prev = signals] : row \in GenerateRows(i)}
          /\ volume_column \in BOOLEAN
       \/ /\ prog = "scan2026"
          /\ i \in ScanBars
          /\ bar \in ScanRows(i)
          /\ signals = 0
          /\ volume_column = FALSE

Ruled(signal) ==
    /\ pc = "rule"
    /\ pc' = "ruled"
    /\ signals' = signal
    /\ UNCHANGED <<scanVars, cacheVars, twin, prog, i, n, capital, position, trades, equity, stop_price, entry_price,
                   market_len, volume_column, hold, result, bar>>

ConservativeRule ==
    /\ prog = "conservative"
    /\ Ruled(ConservativeSignal(bar.close, bar.ma20, bar.ma60, RSI(bar.gain, bar.loss)))

AggressiveRule ==
    /\ prog = "aggressive"
    /\ Ruled(AggressiveSignal(bar.close, bar.ma5, bar.ma10, bar.ma20, bar.recent_high,
                              RSI(bar.gain, bar.loss), bar.market_above))

GenerateRule ==
    /\ prog = "simulate"
    /\ Ruled(GenerateSignal(i, signals, bar.close, bar.ma20, bar.ma60,
                            RSI(bar.gain, bar.loss), volume_column, bar.volume_ratio,
                            bar.hist, bar.hist_prev))

ScanRule ==
    /\ prog = "scan2026"
    /\ Ruled(IF ScanAccept(i, bar.pattern, bar.close, bar.ma60) THEN 1 ELSE 0)

NextRules == ConservativeRule \/ AggressiveRule \/ GenerateRule \/ ScanRule

SpecRules == InitRules /\ [][NextRules]_vars

----------------------------------------------------------------------------
(* Two runs on one series (SpecTwice): the first on the variables of the run,
   the second on twin, both fed the same bars. The series comes from the cache
   as the object an earlier run has worked on, so the second run can find a
   'signal' column already filled. *)

TwicePrograms == {"aggressive", "simulate", "history"}

\* values an earlier run can have left in df['signal'] at a bar
Leftovers(program) == IF program = "history" THEN {0} ELSE {-1, 0, 1}

\* the first run as a record
Here == Run(capital, position, trades, equity, stop_price, entry_price, signals,
            hold, i, pc)

\* the variables of the first run take the values of r
Becomes(r) ==
    /\ capital' = r.capital
    /\ position' = r.position
    /\ trades' = r.trades
    /\ equity' = r.equity
    /\ stop_price' = r.stop_price
    /\ entry_price' = r.entry_price
    /\ signals' = r.signals
    /\ hold' = r.hold
    /\ i' = r.i
    /\ pc' = r.pc

\* a 'signal' column that keeps what it held
KeepColumn(leftover) == leftover

\* df['signal'] = 0: the column before the signal loop writes to it
ResetColumn(leftover) == 0

\* signals = [0] * len(df): the list _generate_signals fills and returns
FreshList(leftover) == 0

\* run_aggressive_backtest up to its trading loop
AggressiveRunBegin(r) ==
    Run(Yuan(InitialCapital), 0, <<>>, <<Yuan(InitialCapital)>>, 0, r.entry_price,
        r.signals, r.hold, AggressiveWarmup, "loop")

\* df['signal'] of a bar: what the signal loop wrote to it, or what the column
\* held
ColumnSignal(leftover, written) ==
    IF written # 0 THEN written ELSE ResetColumn(leftover)

\* df['signal'] at bar idx in the first and in the second run, over the
\* columns a series with this close there can have
TwiceAggressiveSignals(idx, mlen, leftover, close) ==
    {<<ColumnSignal(0, written), ColumnSignal(leftover, written)>> :
        written \in AggressiveSignals(idx, mlen, close)}

\* bar r.i of the trading loop of run_aggressive_backtest
AggressiveRunBar(r, close, signal) ==
    LET a == AggressiveTrade(Stopped(r.capital, r.position, r.trades, r.stop_price),
                             close, signal)
    IN  [r EXCEPT !.capital = a.capital, !.position = a.position, !.trades = a.trades,
                  !.stop_price = a.stop_price,
                  !.equity = Append(r.equity, Total(a.capital, a.position, close)),
                  !.i = r.i + 1]

\* _generate_signals and _simulate_trading up to their loops
SimulateRunBegin(r, leftover) ==
    Run(Yuan(InitialCapital), 0, <<>>, r.equity, r.stop_price, 0, FreshList(leftover),
        r.hold, 1, "loop")

\* signals[idx] in the first and in the second run, over the indicator columns
\* a series with this close there can have
TwiceGenerateSignals(idx, prev, twin_prev, has_volume, close) ==
    {<<GenerateSignal(idx, prev, Num(close), Rolling(20, idx, ma[1]),
                      Rolling(60, idx, ma[2]),
                      RSI(Rolling(14, idx, gl[1]), Rolling(14, idx, gl[2])), has_volume,
                      VolumeRatio(Num(v[1]), Rolling(5, idx, v[2])), Num(h[1]), Num(h[2])),
       GenerateSignal(idx, twin_prev, Num(close), Rolling(20, idx, ma[1]),
                      Rolling(60, idx, ma[2]),
                      RSI(Rolling(14, idx, gl[1]), Rolling(14, idx, gl[2])), has_volume,
                      VolumeRatio(Num(v[1]), Rolling(5, idx, v[2])), Num(h[1]), Num(h[2]))>> :
        ma \in MAPairs, gl \in GainLoss, v \in VolumeRows, h \in MacdRows}

\* bar r.i of _simulate_trading, with signals[r.i]
SimulateRunBar(r, close, signal) ==
    LET a == SimulateTrade(Entered(r.capital, r.position, r.trades, r.entry_price),
                           r.i, close, signal)
    IN  [r EXCEPT !.signals = signal, !.capital = a.capital, !.position = a.position,
                  !.trades = a.trades, !.entry_price = a.entry_price, !.i = r.i + 1]

\* backtest_stock_history up to its while loop
HistoryRunBegin(r) == [r EXCEPT !.trades = <<>>, !.i = HistoryWarmup, !.pc = "loop"]

\* the while loop's body at bar r.i
HistoryRunScan(r, close, atr, pat, above) ==
    LET signal == PatternSignal(pat[1], pat[2], pat[3]) IN
    IF signal # "None" /\ above
    THEN [r EXCEPT !.hold = Entry(r.i, close, ATR(r.i, atr), signal), !.pc = "hold"]
    ELSE [r EXCEPT !.i = r.i + 1]

\* the inner loop's body at bar r.hold.j
HistoryRunHold(r, current_price) ==
    LET sell_reason == HistoryExit(r.hold, r.hold.j, current_price)
        highest_price == Highest(r.hold, current_price)
    IN  IF sell_reason # "none"
        THEN [r EXCEPT !.trades = Append(r.trades, Round(r.hold, r.hold.j, current_price,
                                                         sell_reason)),
                       !.hold = [r.hold EXCEPT !.open = FALSE,
                                               !.highest_price = highest_price],
                       !.i = r.hold.j + 1,
                       !.pc = "loop"]
        ELSE [r EXCEPT !.hold = [r.hold EXCEPT !.highest_price = highest_price,
                                               !.j = r.hold.j + 1]]

\* the series ends at bar r.hold.j - 1 with the position open
HistoryRunForce(r, last_close) ==
    [r EXCEPT !.trades = Append(r.trades, ForceSell(r.hold, r.hold.j, last_close)),
              !.hold = [r.hold EXCEPT !.open = FALSE],
              !.i = (r.hold.j - 1) + 1,
              !.pc = "loop"]

InitTwice ==
    /\ ColdCache
    /\ NoScan
    /\ prog \in TwicePrograms
    /\ pc = "start"
    /\ i = 0
    /\ n = 0
    /\ capital = Yuan(0)
    /\ position = 0
    /\ trades = <<>>
    /\ equity = <<>>
    /\ stop_price = 0
    /\ entry_price = 0
    /\ signals = 0
    /\ market_len = -1
    /\ volume_column = FALSE
    /\ hold = NoHold
    /\ result = NoResult
    /\ bar = NoBar
    /\ twin \in {[NoTwin EXCEPT !.leftover = left] : left \in Leftovers(prog)}

\* both runs start; the first finds the series as fetched
TwiceBegin ==
    /\ pc = "start"
    /\ \/ /\ prog = "aggressive"
          /\ market_len' \in MarketLens
          /\ Becomes(AggressiveRunBegin(Here))
          /\ twin' = [twin EXCEPT !.run = AggressiveRunBegin(twin.run)]
          /\ UNCHANGED volume_column
       \/ /\ prog = "simulate"
          /\ volume_column' \in BOOLEAN
          /\ Becomes(SimulateRunBegin(Here, 0))
          /\ twin' = [twin EXCEPT !.run = SimulateRunBegin(twin.run, twin.leftover)]
          /\ UNCHANGED market_len
       \/ /\ prog = "history"
          /\ Becomes(HistoryRunBegin(Here))
          /\ twin' = [twin EXCEPT !.run = HistoryRunBegin(twin.run)]
          /\ UNCHANGED <<market_len, volume_column>>
    /\ UNCHANGED <<scanVars, cacheVars, prog, n, result, bar>>

TwiceAggressiveBar ==
    /\ prog = "aggressive" /\ pc = "loop"
    /\ i < AggressiveWarmup + MaxBars
    /\ \E close \in Prices :
       \E signal \in TwiceAggressiveSignals(i, market_len, twin.leftover, close) :
         /\ Becomes(AggressiveRunBar(Here, close, signal[1]))
         /\ twin' = [twin EXCEPT !.run = AggressiveRunBar(twin.run, close, signal[2])]
         /\ bar' = [NoBar EXCEPT !.close = close]
    /\ UNCHANGED <<scanVars, cacheVars, prog, n, market_len, volume_column, result>>

TwiceSimulateBar ==
    /\ prog = "simulate" /\ pc = "loop"
    /\ i < 60 + MaxBars
    /\ \E close \in Prices :
       \E signal \in TwiceGenerateSignals(i, signals, twin.run.signals, volume_column,
                                          close) :
         /\ Becomes(SimulateRunBar(Here, close, signal[1]))
         /\ twin' = [twin EXCEPT !.run = SimulateRunBar(twin.run, close, signal[2])]
         /\ bar' = [NoBar EXCEPT !.close = close]
    /\ UNCHANGED <<scanVars, cacheVars, prog, n, market_len, volume_column, result>>

TwiceHistoryScan ==
    /\ prog = "history" /\ pc = "loop" /\ n = 0
    /\ i < HistoryWarmup + MaxScanBars
    /\ \E close \in PatternPrices, atr \in ATRValues :
       \E pat \in PatternRows, above \in AboveMA60(i, close) :
         /\ Becomes(HistoryRunScan(Here, close, atr, pat, above))
         /\ twin' = [twin EXCEPT !.run = HistoryRunScan(twin.run, close, atr, pat, above)]
         /\ bar' = [NoBar EXCEPT !.close = close]
    /\ UNCHANGED <<scanVars, cacheVars, prog, n, market_len, volume_column, result>>

TwiceHistoryHold ==
    /\ prog = "history" /\ pc = "hold" /\ hold.open
    /\ hold.j <= hold.buy_idx + MaxHoldBars
    /\ \E current_price \in HoldPrices :
         /\ Becomes(HistoryRunHold(Here, current_price))
         /\ twin' = [twin EXCEPT !.run = HistoryRunHold(twin.run, current_price)]
         /\ bar' = [NoBar EXCEPT !.close = current_price]
    /\ UNCHANGED <<scanVars, cacheVars, prog, n, market_len, volume_column, result>>

TwiceHistoryForce ==
    /\ prog = "history" /\ pc = "hold" /\ hold.open
    /\ n' = hold.j
    /\ Becomes(HistoryRunForce(Here, bar.close))
    /\ twin' = [twin EXCEPT !.run = HistoryRunForce(twin.run, bar.close)]
    /\ UNCHANGED <<scanVars, cacheVars, prog, market_len, volume_column, result, bar>>

NextTwice ==
    \/ TwiceBegin
    \/ TwiceAggressiveBar
    \/ TwiceSimulateBar
    \/ TwiceHistoryScan \/ TwiceHistoryHold \/ TwiceHistoryForce

SpecTwice == InitTwice /\ [][NextTwice]_vars

----------------------------------------------------------------------------
(* Properties of the runs (Spec) *)

ShareSimulators == {"conservative", "aggressive", "simulate"}
MainSimulators == {"conservative", "aggressive"}
StopSimulators == {"aggressive", "simulate"}
RoundSimulators == {"history", "signal2026"}

Last(log) == log[Len(log)]

\* C1: in every simulator at most one position is open at any bar: a BUY is
\* logged only while flat, so no two BUYs are adjacent in a trade log and the
\* account holds shares exactly when the log ends with a BUY; the rounds of
\* backtest_stock_history do not overlap, each entered after the previous
\* one's sale.
C1_OnePositionAtATime ==
    /\ prog \in ShareSimulators =>
         /\ \A k \in 1..(Len(trades) - 1) : IsBuy(trades[k]) => IsSell(trades[k + 1])
         /\ position > 0 <=> (trades # <<>> /\ IsBuy(Last(trades)))
    /\ prog \in RoundSimulators =>
         /\ \A k \in 1..(Len(trades) - 1) : trades[k].sell_idx < trades[k + 1].buy_idx
         /\ \A k \in 1..Len(trades) : trades[k].buy_idx <= trades[k].sell_idx
         /\ (hold.open /\ trades # <<>>) => Last(trades).sell_idx < hold.buy_idx

\* a buy signal arrives while shares bought after an earlier round trip are
\* held, and nothing is logged for it
C1_BuySignalWhileLong ==
    /\ prog = "conservative"
    /\ bar.signal = 1
    /\ bar.position > 0
    /\ bar.count = 3
    /\ Len(trades) = 3
    /\ position > 0

\* C2: only the rounds of n6.py are force-closed: a round with reason
\* force_sell is the last of the list, is dated at the last bar, len(df) - 1,
\* and priced at the last close, and no position is open once the function
\* is done.  The share-based simulators append no SELL at the end: shares
\* held after the last bar are still held when the figures are computed, the
\* final value marks them at the last close, the trade count counts the
\* open BUY and the wins are counted over the closed pairs only.
C2_ForceSellOnlyInRounds ==
    /\ prog \in RoundSimulators =>
         /\ pc = "done" => ~hold.open
         /\ \A k \in 1..Len(trades) :
              trades[k].reason = "force_sell" =>
                /\ k = Len(trades)
                /\ n > 0
                /\ trades[k].sell_idx = n - 1
                /\ trades[k].sell_price = bar.close
    /\ (prog \in ShareSimulators /\ pc = "done") =>
         /\ position > 0 =>
              /\ IsBuy(Last(trades))
              /\ position = Last(trades).shares
              /\ result.trade_count = result.sells + 1
         /\ \A k \in 1..Len(trades) :
              prog # "conservative" => trades[k].reason # "force_sell"
         /\ result.final = MAdd(capital, Yuan(position * bar.close))
         /\ result.trade_count = Len(SelectSeq(trades, IsBuy))
         /\ result.wins <= result.sells

\* the conservative backtest is done with shares still held, after an
\* earlier round trip
C2_DoneWhileLong ==
    /\ prog = "conservative"
    /\ pc = "done"
    /\ position > 0
    /\ result.sells = 1
    /\ result.trade_count = 2

\* C2 as stated: whatever the simulator, no position is open once the last
\* bar has been processed
C2_AsStated == pc = "done" => (position = 0 /\ ~hold.open)

\* C3: the exit checks of a bar are tried in the order of the code and the
\* first that matches is recorded.  In n6.py the order is take-profit,
\* stop-loss, trailing stop, time stop: a close that meets the take-profit
\* is recorded as take_profit even when it meets the stop-loss too, and
\* stop_loss is recorded when the stop-loss is met and the take-profit is
\* not.  In run_aggressive_backtest and _simulate_trading the stop-loss is
\* tried before the rule signal: a bar that meets it logs a stop_loss SELL
\* whatever the signal of the bar.
C3_ExitOrder ==
    /\ (prog \in RoundSimulators /\ ~hold.open /\ trades # <<>>
                                 /\ Last(trades).reason # "force_sell") =>
         LET r == Last(trades)
             take_profit == r.sell_price >= hold.take_profit
             stop_loss == r.sell_price <= hold.stop_loss
             trailing == /\ hold.highest_price > hold.buy_price + hold.atr_at_buy
                         /\ 2 * (hold.highest_price - r.sell_price) > 3 * hold.atr_at_buy
             time_stop == r.sell_idx - r.buy_idx > 20
         IN  /\ take_profit => r.reason = "take_profit"
             /\ (stop_loss /\ ~take_profit) => r.reason = "stop_loss"
             /\ r.reason = "trailing_stop" => (~take_profit /\ ~stop_loss /\ trailing)
             /\ r.reason = "time_stop" =>
                  (~take_profit /\ ~stop_loss /\ ~trailing /\ time_stop)
    /\ (prog \in StopSimulators /\ bar.position > 0 /\ 100 * bar.close < bar.stop) =>
         /\ Len(trades) > bar.count
         /\ IsSell(trades[bar.count + 1])
         /\ trades[bar.count + 1].reason = "stop_loss"

\* a round entered with an ATR of 0 is closed at its entry price, where
\* the stop-loss and the take-profit are both met, and recorded as take_profit
C3_StopAndTakeProfitMeet ==
    /\ prog = "history"
    /\ ~hold.open
    /\ trades # <<>>
    /\ Last(trades).sell_price <= hold.stop_loss
    /\ Last(trades).sell_price >= hold.take_profit
    /\ Last(trades).reason = "take_profit"

\* C3 as stated: a bar that meets the stop-loss and another exit condition
\* is recorded as stop_loss
C3_AsStated ==
    (prog \in RoundSimulators /\ ~hold.open /\ trades # <<>>
                              /\ Last(trades).reason # "force_sell"
                              /\ Last(trades).sell_price <= hold.stop_loss) =>
        Last(trades).reason = "stop_loss"

\* C4: the stop-loss comparison is strict in run_aggressive_backtest and
\* _simulate_trading and inclusive in n6.py.  In the first two a close below
\* the stop price logs a stop_loss SELL and a close equal to it or above it
\* logs none; in n6.py a close at or below the stop price closes the round as
\* stop_loss unless it meets the take-profit, which is tried first.
C4_StopComparison ==
    /\ (prog \in StopSimulators /\ bar.position > 0) =>
         /\ 100 * bar.close < bar.stop =>
              /\ Len(trades) > bar.count
              /\ trades[bar.count + 1].reason = "stop_loss"
         /\ 100 * bar.close >= bar.stop =>
              \A k \in (bar.count + 1)..Len(trades) : trades[k].reason # "stop_loss"
    /\ (prog \in RoundSimulators /\ ~hold.open /\ trades # <<>>
                                 /\ Last(trades).reason # "force_sell") =>
         /\ (Last(trades).sell_price <= hold.stop_loss
               /\ Last(trades).sell_price < hold.take_profit) =>
              Last(trades).reason = "stop_loss"
         /\ Last(trades).reason = "stop_loss" => Last(trades).sell_price <= hold.stop_loss

\* the aggressive backtest holds shares through a bar whose close equals
\* the stop price
C4_CloseAtStopHeld ==
    /\ prog = "aggressive"
    /\ bar.position > 0
    /\ 100 * bar.close = bar.stop
    /\ position = bar.position
    /\ Len(trades) = bar.count

\* C4 as stated: a close at or below the stop price logs a stop_loss SELL
C4_AsStated ==
    (prog \in StopSimulators /\ bar.position > 0 /\ 100 * bar.close <= bar.stop) =>
        /\ Len(trades) > bar.count
        /\ trades[bar.count + 1].reason = "stop_loss"

\* C5: the equity list of run_conservative_backtest and
\* run_aggressive_backtest starts with the initial 100000 and gets one point
\* per bar of the trading loop, so it holds one point more than the bars
\* processed; the point of a bar is capital + position * close of that bar.
C5_EquityCurve ==
    (prog \in MainSimulators /\ pc \in {"loop", "done"}) =>
        LET first == IF prog = "conservative" THEN ConservativeWarmup ELSE AggressiveWarmup
        IN  /\ Len(equity) = (i - first) + 1
            /\ equity[1] = Yuan(100000)
            /\ i > first =>
                 equity[Len(equity)] =
                     (IF position > 0 THEN MAdd(capital, Yuan(position * bar.close))
                      ELSE capital)
            /\ pc = "done" => (n = i /\ Len(equity) = (n - first) + 1)

\* the aggressive backtest is done after three bars or more, holding shares
C5_DoneWithCurve ==
    /\ prog = "aggressive"
    /\ pc = "done"
    /\ n >= AggressiveWarmup + 3
    /\ position > 0
    /\ Len(trades) >= 3

\* C5 as stated: the equity list is as long as the bars processed
C5_AsStated ==
    (prog \in MainSimulators /\ pc = "done") =>
        Len(equity) = n - (IF prog = "conservative" THEN ConservativeWarmup
                           ELSE AggressiveWarmup)

\* C6: in the share-based simulators every SELL, by signal or by stop-loss,
\* follows a BUY and sells exactly the shares of that BUY, and the account
\* holds no shares when the log ends with a SELL.
C6_SellsWholePosition ==
    prog \in ShareSimulators =>
        /\ \A k \in 1..Len(trades) :
             IsSell(trades[k]) =>
               /\ k > 1
               /\ IsBuy(trades[k - 1])
               /\ trades[k].shares = trades[k - 1].shares
        /\ \A k \in 1..Len(trades) : trades[k].shares > 0
        /\ (trades # <<>> /\ IsSell(Last(trades))) => position = 0
        /\ (trades # <<>> /\ IsBuy(Last(trades))) => position = Last(trades).shares

\* a signal sale and a stop-loss sale are both in the log
C6_BothKindsOfSale ==
    /\ prog = "simulate"
    /\ Len(trades) = 4
    /\ trades[2].reason = "signal"
    /\ trades[4].reason = "stop_loss"
    /\ position = 0

\* C7: a buy signal that fires while flat and sizes to no share, or to a
\* total cost above the cash, changes neither the cash nor the position nor
\* the trade log, and the loop goes on to the next bar.
C7_RejectedEntry ==
    [][(/\ prog \in ShareSimulators
        /\ pc = "loop" /\ pc' = "loop"
        /\ position = 0
        /\ bar'.signal = 1
        /\ LET shares == IF prog = "simulate" THEN Shares(capital, 19, 20, bar'.close)
                         ELSE Shares(capital, 7, 10, bar'.close)
               cost == SimCost(shares * bar'.close)
           IN  \/ shares <= 0
               \/ prog = "simulate" /\ ~MLeq(MAdd(cost, SimCommission(cost)), capital))
       => (/\ capital' = capital
           /\ position' = 0
           /\ trades' = trades
           /\ i' = i + 1)]_vars

\* after a round trip a buy signal at a price the cash cannot buy one share
\* at has left the account as it was
C7_NoShareAffordable ==
    /\ prog = "conservative"
    /\ pc = "loop"
    /\ bar.signal = 1
    /\ bar.position = 0
    /\ bar.count = 2
    /\ Shares(bar.capital, 7, 10, bar.close) = 0
    /\ capital = bar.capital
    /\ position = 0
    /\ Len(trades) = 2

----------------------------------------------------------------------------
(* Properties of the signal rules (SpecRules) *)

RowRsi == RSI(bar.gain, bar.loss)

\* whether all entry conditions / some exit condition of the rule hold on
\* the row
RowBuy ==
    CASE prog = "conservative" -> ConservativeBuy(bar.close, bar.ma20, bar.ma60, RowRsi)
      [] prog = "aggressive" -> AggressiveBuy(bar.close, bar.ma5, bar.ma10, bar.ma20,
                                              bar.recent_high, RowRsi, bar.market_above)
      [] prog = "simulate" -> GenerateBuy(bar.close, bar.ma20, bar.ma60, RowRsi, volume_column,
                                          bar.volume_ratio, bar.hist, bar.hist_prev)
      [] OTHER -> FALSE

RowSell ==
    CASE prog = "conservative" -> ConservativeSell(bar.close, bar.ma20, RowRsi)
      [] prog = "aggressive" -> AggressiveSell(bar.close, bar.ma20, RowRsi, bar.market_above)
      [] prog = "simulate" -> GenerateSell(bar.close, bar.ma20, RowRsi)
      [] OTHER -> FALSE

\* C8: in the signal loops of run_conservative_backtest,
\* run_aggressive_backtest and _generate_signals the entry conditions come
\* first: a bar on which they all hold gets the entry signal, 1, also when
\* an exit condition holds on it, and the exit signal is given only to bars
\* on which the entry conditions do not all hold.
C8_EntryBeforeExit ==
    (pc = "ruled" /\ prog \in ShareSimulators /\ (prog = "simulate" => i >= SignalsWarmup)) =>
        /\ RowBuy => signals = 1
        /\ (prog # "simulate" /\ signals = -1) => (~RowBuy /\ RowSell)
        /\ (prog = "simulate" /\ bar.prev = 1 /\ signals = 0) => (~RowBuy /\ RowSell)

\* on a forward-adjusted row with negative prices the conservative entry
\* conditions and the exit condition close > ma20 * 1.15 hold together, and
\* the signal is 1
C8_EntryAndExitMeet ==
    /\ prog = "conservative"
    /\ pc = "ruled"
    /\ RowBuy
    /\ GT(Times(bar.close, 100), Times(bar.ma20, 115))
    /\ signals = 1

C10_AsStated ==
    (pc = "ruled" /\ prog \in ShareSimulators /\ ~bar.loss.nan /\ bar.loss.v = 0) =>
        /\ RowRsi.nan
        /\ ~RsiGT(RowRsi, 70)
        /\ (prog = "conservative" /\ ~GT(Times(bar.close, 100), Times(bar.ma20, 115))) =>
             signals # -1

\* C11: the share-based simulators and backtest_stock_history log no entry
\* on a bar below window-1 of an indicator their entry reads: the loops of
\* main.py start at bars 60 and 30, _generate_signals gives no entry signal
\* while ma60 is NaN, so that _simulate_trading buys at bar 59 at the
\* earliest, and backtest_stock_history starts at bar 60.
\* backtest_2026_signal does enter below window-1 of the ATR: it buys at the
\* signal bar whatever its index and sizes the stops with 5% of the buy
\* price in place of the NaN ATR.
C11_WarmupEntries ==
    /\ prog = "simulate" =>
         \A k \in 1..Len(trades) : IsBuy(trades[k]) => trades[k].date >= 60 - 1
    /\ (prog = "conservative" /\ Len(trades) > bar.count) => i - 1 >= 60 - 1
    /\ (prog = "aggressive" /\ Len(trades) > bar.count) => i - 1 >= 20 - 1
    /\ prog = "history" =>
         /\ \A k \in 1..Len(trades) : trades[k].buy_idx >= 60 - 1
         /\ hold.buy_price > 0 => hold.buy_idx >= 60 - 1
    /\ (prog = "signal2026" /\ hold.buy_price > 0 /\ hold.buy_idx < 14 - 1) =>
         /\ hold.atr_at_buy = (hold.buy_price * 5) \div 100
         /\ hold.stop_loss = hold.buy_price - 2 * hold.atr_at_buy
         /\ hold.take_profit = hold.buy_price + 4 * hold.atr_at_buy

\* backtest_2026_signal holds a position entered at bar 5, where the 14-bar
\* ATR is NaN, with stops 10% below and 20% above the buy price
C11_EntryBeforeATR ==
    /\ prog = "signal2026"
    /\ hold.open
    /\ hold.buy_idx = 5
    /\ hold.buy_price = 50000
    /\ hold.stop_loss = 45000
    /\ hold.take_profit = 60000

\* C11 as stated: no position is entered on a bar below window-1 of the ATR
\* its stops are sized with
C11_AsStated ==
    (prog \in RoundSimulators /\ hold.buy_price > 0) => hold.buy_idx >= 14 - 1

\* C12: the stops of a position are set at its entry bar and stay as they
\* are until it is closed.  In n6.py stop_loss is buy_price - 2 * atr_at_buy
\* and take_profit is buy_price + 4 * atr_at_buy on every bar of the holding
\* loop; in run_aggressive_backtest stop_price is 0.93 of the price of the
\* BUY on every bar the shares are held, also on later buy-signal bars, and
\* in _simulate_trading entry_price is the price of the BUY.
C12_StopsFixedAtEntry ==
    [][/\ (hold.open /\ hold'.open) =>
            /\ hold'.stop_loss = hold.stop_loss
            /\ hold'.take_profit = hold.take_profit
            /\ hold'.atr_at_buy = hold.atr_at_buy
            /\ hold'.buy_price = hold.buy_price
            /\ hold.stop_loss = hold.buy_price - 2 * hold.atr_at_buy
            /\ hold.take_profit = hold.buy_price + 4 * hold.atr_at_buy
       /\ (prog = "aggressive" /\ position > 0 /\ trades' = trades) =>
            /\ stop_price' = stop_price
            /\ stop_price = 93 * Last(trades).price
       /\ (prog = "simulate" /\ position > 0 /\ trades' = trades) =>
            /\ entry_price' = entry_price
            /\ entry_price = Last(trades).price]_vars

\* the aggressive backtest holds shares through a later buy-signal bar
\* whose close is not the entry price: the stop is still that of the entry
C12_LaterSignalBar ==
    /\ prog = "aggressive"
    /\ bar.position > 0
    /\ bar.signal = 1
    /\ position = bar.position
    /\ Len(trades) = bar.count
    /\ bar.close # Last(trades).price
    /\ stop_price = 93 * Last(trades).price

\* C13: the pattern entries of n6.py.  backtest_stock_history enters on a
\* bar it examines (from bar 60 on, no position open) exactly when the bar
\* has a pattern and its close is above ma60, at that bar's close and under
\* that pattern's name.  recommend_latest reports the last bar exactly when
\* it has a pattern and its close is above ma60.  scan_for_2026 stops at the
\* first bar of 2026 that has a pattern and reads the ma60 filter only if
\* that bar's index is 60 or more: below 60 the bar is reported whatever
\* ma60 is, and no later bar is examined.
C13_PatternEntries ==
    [][/\ (prog = "history" /\ pc = "loop" /\ pc' \in {"loop", "hold"}) =>
            /\ i >= 60
            /\ pc' = "hold" <=> (bar'.pattern # "None" /\ bar'.above)
            /\ pc' = "hold" =>
                 /\ hold'.open
                 /\ hold'.buy_idx = i
                 /\ hold'.buy_price = bar'.close
                 /\ hold'.signal = bar'.pattern
            /\ pc' = "loop" => (i' = i + 1 /\ hold' = hold /\ trades' = trades)
       /\ (prog = "recommend" /\ pc' = "done") =>
            (signals' = 1 <=> (bar'.pattern # "None" /\ bar'.above))
       /\ (prog = "scan2026" /\ pc = "loop" /\ i' = i) =>
            /\ bar'.pattern = "None" => (signals' = 0 /\ pc' = "done" /\ n' = i)
            /\ bar'.pattern # "None" =>
                 /\ pc' = "done"
                 /\ signals' = 1 <=> (i < 60 \/ bar'.above)
       /\ (prog = "scan2026" /\ pc = "loop" /\ i' # i) =>
            (bar'.pattern = "None" /\ i' = i + 1 /\ signals' = 0 /\ pc' = "loop")]_vars

\* scan_for_2026 reports a bar of index 59, where ma60 is defined and the
\* close is not above it
C13_ReportedBelowMA60 ==
    /\ prog = "scan2026"
    /\ pc = "done"
    /\ i = 59
    /\ bar.pattern # "None"
    /\ ~bar.above
    /\ signals = 1

\* C13 as stated: a bar with a pattern whose close is not above ma60, or
\* whose ma60 is undefined, yields no entry
C13_AsStated ==
    (prog \in {"history", "scan2026", "recommend"} /\ bar.pattern # "None" /\ ~bar.above) =>
        (signals = 0 /\ pc # "hold")

\* C14: in backtest_stock_history and backtest_2026_signal the time stop
\* closes a position on bar entry + 21, the first bar with j - i > 20, if
\* nothing closed it before: a round recorded as time_stop is sold exactly
\* 21 bars after its entry bar, no round is sold later than that, and the
\* holding loop never goes past that bar.
C14_TimeStop ==
    prog \in RoundSimulators =>
        /\ \A k \in 1..Len(trades) :
             /\ trades[k].sell_idx - trades[k].buy_idx <= 21
             /\ trades[k].reason = "time_stop" =>
                  trades[k].sell_idx - trades[k].buy_idx = 21
        /\ hold.open => hold.j <= hold.buy_idx + 21
        /\ (~hold.open /\ trades # <<>> /\ Last(trades).reason # "force_sell"
              /\ Last(trades).sell_idx - Last(trades).buy_idx = 21
              /\ Last(trades).sell_price < hold.take_profit
              /\ Last(trades).sell_price > hold.stop_loss
              /\ ~TrailingHit(hold, hold.highest_price, Last(trades).sell_price)) =>
             Last(trades).reason = "time_stop"

\* a round of backtest_stock_history is closed by the time stop, 21 bars
\* after its entry
C14_ClosedByTimeStop ==
    /\ prog = "history"
    /\ trades # <<>>
    /\ Last(trades).reason = "time_stop"
    /\ Last(trades).sell_idx = Last(trades).buy_idx + 21

C16_PatternPriority ==
    prog \in {"history", "scan2026", "recommend"} =>
        /\ bar.detected[1] => bar.pattern = "Pinbar"
        /\ (~bar.detected[1] /\ bar.detected[2]) => bar.pattern = "Engulfing"
        /\ (~bar.detected[1] /\ ~bar.detected[2] /\ bar.detected[3]) =>
             bar.pattern = "Breakout"
        /\ bar.detected = <<FALSE, FALSE, FALSE>> => bar.pattern = "None"
        /\ bar.pattern \in {"Pinbar", "Engulfing", "Breakout", "None"}
        /\ (prog = "history" /\ hold.open /\ hold.j = hold.buy_idx + 1) =>
             hold.signal = bar.pattern

\* backtest_stock_history enters on a bar that is_pinbar and
\* is_breakout_with_volume both accept, as a Pinbar
C16_PinbarAndBreakout ==
    /\ prog = "history"
    /\ hold.open
    /\ hold.j = hold.buy_idx + 1
    /\ bar.detected = <<TRUE, FALSE, TRUE>>
    /\ hold.signal = "Pinbar"

\* C17 as stated: the win count behind the reported win rate is the number of
\* completed Buy -> Sell pairs, the k-th Buy with the k-th Sell, whose sell
\* price is strictly above the buy price, out of all completed pairs, and the
\* rate is 0 without a completed pair.
C17_AsStated ==
    pc = "done" =>
        /\ prog \in MainSimulators =>
             /\ result.sells = Len(trades) \div 2
             /\ result.wins =
                  Cardinality({k \in 1..(Len(trades) \div 2) :
                                  trades[2 * k].price > trades[2 * k - 1].price})
        /\ prog = "history" =>
             /\ result.sells = Len(trades)
             /\ result.wins =
                  Cardinality({k \in 1..Len(trades) :
                                  trades[k].sell_price > trades[k].buy_price})

\* C18: the benchmark return of a finished backtest is close[last] / close[s]
\* - 1 with s the bar the code names: bar 60 in run_conservative_backtest and
\* bar 30 in run_aggressive_backtest, the first bar of their signal loops, and
\* bar 0 in _print_short_backtest_results, twenty bars before the first bar
\* _generate_signals looks at. The two closes are the close of the last bar
\* and the close the series had at bar s.
C18_BenchmarkWindow ==
    (pc = "done" /\ prog \in ShareSimulators) =>
        /\ prog = "conservative" => result.from = ConservativeWarmup
        /\ prog = "aggressive" => result.from = AggressiveWarmup
        /\ prog = "simulate" => result.from = 0
        /\ result.from < n
        /\ result.base = bar.base
        /\ result.base \in Prices \cup AggressivePrices
        /\ result.last = bar.close
        /\ (n = result.from + 1) => result.last = result.base

\* _print_short_backtest_results has a benchmark that starts at bar 0, on a
\* series whose first entry came at bar 59 or later and whose close has moved
\* since bar 0
C18_BenchmarkFromFirstBar ==
    /\ prog = "simulate" /\ pc = "done"
    /\ result.from = 0
    /\ result.trade_count > 0
    /\ result.base # result.last

\* C18 as stated: the benchmark window of every backtest starts at the first
\* bar at which the simulation can evaluate a signal.
C18_AsStated ==
    (pc = "done" /\ prog \in ShareSimulators) =>
        result.from = (CASE prog = "conservative" -> ConservativeWarmup
                         [] prog = "aggressive" -> AggressiveWarmup
                         [] prog = "simulate" -> SignalsWarmup)

\* amt * m / 1000 yuan, for a whole amount amt and a factor m in thousandths
Thousandths(amt, m) == Money((amt * m) \div 1000, ((amt * m) % 1000) * 10000)

\* the trades the last bar appended
NewTrades == {k \in (bar.count + 1)..Len(trades) : TRUE}

\* shares * price of the trades of one action the last bar appended
Turnover(action) ==
    IF \E k \in NewTrades : trades[k].action = action
    THEN LET k == CHOOSE j \in NewTrades : trades[j].action = action
         IN  trades[k].shares * trades[k].price
    ELSE 0

\* C19: the two legs of every trade pay by one convention, whatever closes the
\* position. In run_conservative_backtest and run_aggressive_backtest a bar
\* leaves capital at its value before the bar, less shares * price * 1.001
\* for a BUY, plus shares * price * 0.999 for a SELL, stop-loss sales
\* included. In _simulate_trading a BUY takes shares * price * 1.001 * 1.0003
\* (slippage, then commission on the slipped cost) and a SELL of either reason
\* gives shares * price * 0.999 * 0.9997 (slippage, then commission on the
\* proceeds); the log keeps the total cost of a BUY and the proceeds before
\* commission of a SELL.
C19_CostConvention ==
    (prog \in ShareSimulators /\ pc \in {"loop", "done"} /\ bar.close > 0) =>
        /\ Cardinality({k \in NewTrades : IsBuy(trades[k])}) <= 1
        /\ Cardinality({k \in NewTrades : IsSell(trades[k])}) <= 1
        /\ prog \in MainSimulators =>
             capital = MSub(MAdd(bar.capital, Thousandths(Turnover("SELL"), 999)),
                            Thousandths(Turnover("BUY"), 1001))
        /\ prog = "simulate" =>
             /\ capital =
                  MSub(MAdd(bar.capital,
                            MSub(Yuan(Turnover("SELL")), Frac(Turnover("SELL"), 12997))),
                       MAdd(Yuan(Turnover("BUY")), Frac(Turnover("BUY"), 13003)))
             /\ \A k \in NewTrades :
                  trades[k].value =
                      IF IsBuy(trades[k])
                      THEN MAdd(Yuan(Turnover("BUY")), Frac(Turnover("BUY"), 13003))
                      ELSE Thousandths(Turnover("SELL"), 999)

\* _simulate_trading has sold at a stop-loss, and the capital has the
\* proceeds less slippage and commission
C19_StopLossSalePaysCosts ==
    /\ prog = "simulate" /\ pc = "loop"
    /\ Len(trades) = bar.count + 1
    /\ Last(trades).reason = "stop_loss"
    /\ MLeq(capital, MAdd(bar.capital, Yuan(Turnover("SELL") - 1)))
    /\ ~MLeq(capital, bar.capital)

C25_LogAlternates ==
    prog \in ShareSimulators =>
        LET buys == Cardinality({k \in 1..Len(trades) : IsBuy(trades[k])})
            sells == Cardinality({k \in 1..Len(trades) : IsSell(trades[k])})
        IN  /\ \A k \in 1..Len(trades) :
                 trades[k].action = IF k % 2 = 1 THEN "BUY" ELSE "SELL"
            /\ buys - sells \in {0, 1}
            /\ buys - sells = 1 <=> position > 0
            /\ buys - sells = 0 <=> position = 0

\* _simulate_trading holds shares after BUY, SELL, BUY
C25_ThirdTradeOpen ==
    /\ prog = "simulate"
    /\ Len(trades) = 3
    /\ position > 0

\* C26: in run_conservative_backtest, run_aggressive_backtest and
\* _simulate_trading the cash is never negative, after any bar: a BUY takes
\* at most what the account holds, with the cost factor, though only
\* _simulate_trading compares the total cost with the cash.
C26_CashNotNegative ==
    prog \in ShareSimulators =>
        /\ capital.y >= 0
        /\ capital.f >= 0
        /\ (pc \in {"loop", "done"} /\ Len(trades) = bar.count + 1 /\ IsBuy(Last(trades)))
              => MLeq(capital, bar.capital)

\* run_conservative_backtest has bought for the second time, with what was
\* left of an earlier round, and has cash left
C26_SecondPurchase ==
    /\ prog = "conservative"
    /\ Len(trades) = 3
    /\ Len(trades) = bar.count + 1
    /\ ~MLeq(bar.capital, capital)
    /\ MLeq(Yuan(1), capital)


\* C28: run_aggressive_backtest appends at most two trades on a bar, and two
\* only as a stop_loss SELL followed by a BUY: on a bar with signal 1 whose
\* close is below the stop it sells and buys again at that close (if the cash
\* buys a share), the new stop at close * 0.93. In _simulate_trading a bar appends at most one
\* trade, and a bar whose close is under the stop-loss line ends flat, signal
\* 1 or not.
C28_TradesPerBar ==
    /\ (prog = "aggressive" /\ pc \in {"loop", "done"} /\ bar.close > 0) =>
          LET added == Len(trades) - bar.count
              stopped == bar.position > 0 /\ 100 * bar.close < bar.stop
          IN  /\ added \in {0, 1, 2}
              /\ added = 2 =>
                    /\ stopped /\ bar.signal = 1
                    /\ trades[bar.count + 1] = SellFor(bar.close, bar.position, "stop_loss")
                    /\ trades[bar.count + 2].action = "BUY"
                    /\ trades[bar.count + 2].price = bar.close
                    /\ position > 0
                    /\ stop_price = 93 * bar.close
              /\ (stopped /\ bar.signal = 1) =>
                    \/ added = 2
                    \/ added = 1 /\ position = 0 /\ Shares(capital, 7, 10, bar.close) = 0
    /\ (prog = "simulate" /\ pc \in {"loop", "done"} /\ bar.close > 0) =>
          /\ Len(trades) - bar.count \in {0, 1}
          /\ (bar.position > 0 /\ 100 * bar.close < bar.stop) =>
                /\ position = 0
                /\ Len(trades) = bar.count + 1
                /\ Last(trades).reason = "stop_loss"

\* run_aggressive_backtest has sold at the stop and bought again on one bar
C28_SoldAndReboughtOnOneBar ==
    /\ prog = "aggressive"
    /\ Len(trades) = bar.count + 2
    /\ Last(trades).action = "BUY"
    /\ position > 0

\* C29: in run_aggressive_backtest a bar for which the market index has no
\* bar (the index could not be fetched, or is shorter than the bar's place),
\* or a bar before the 20th, never has signal 1: its market test is false and
\* its signal is -1. So a run without the index buys nothing and ends with
\* what it began with, a strategy return of 0.
C29_NoEntryWithoutMarket ==
    /\ \A idx \in 0..19, m \in MarketRows : ~MarketAbove(market_len, idx, m[1], m[2])
    /\ (prog = "aggressive" /\ pc \in {"loop", "done"} /\ bar.close > 0) =>
          /\ (market_len = -1 \/ i - 1 >= market_len) => bar.signal = -1
          /\ market_len = -1 =>
                /\ trades = <<>>
                /\ position = 0
                /\ \A k \in 1..Len(equity) : equity[k] = Yuan(InitialCapital)
                /\ pc = "done" => /\ result.trade_count = 0
                                  /\ result.final = Yuan(InitialCapital)

\* a run of run_aggressive_backtest over 60 bars without the market index is
\* over
C29_RunWithoutMarket ==
    /\ prog = "aggressive"
    /\ pc = "done"
    /\ market_len = -1
    /\ n = 60
    /\ bar.signal = -1
    /\ result.final = Yuan(InitialCapital)

\* C21 as stated: a backtest handed a series of 1 to 59 bars, fewer than its
\* lookback of 60, skips the instrument: it ends without a result, without a
\* trade and without an exception.
C21_AsStated ==
    (prog \in ShareSimulators \cup {"history"} /\ n \in 1..59) =>
        /\ pc \notin {"done", "raised"}
        /\ result = NoResult
        /\ trades = <<>>
----------------------------------------------------------------------------
(* backtest_stock_history alone, its loops taking their next step *)

InitHistory == Init /\ prog = "history"

NextHistory ==
    \/ HistoryReject
    \/ HistoryBegin
    \/ HistoryScan
    \/ HistoryHold
    \/ HistoryForce
    \/ HistoryEnd

SpecHistory == InitHistory /\ [][NextHistory]_vars /\ WF_vars(NextHistory)

\* C27: backtest_stock_history comes to its end on every series: each pass of
\* the outer loop moves i forward, each pass of the inner loop moves j
\* forward, and the call ends with a result or a refusal. Its trades never
\* overlap: a trade is closed on its entry bar or later, the next one is
\* entered after the bar of the last sale, where the scan resumes
\* (sell_idx + 1).
C27_EndsWithoutOverlap ==
    /\ [](/\ \A k \in 1..Len(trades) : trades[k].buy_idx <= trades[k].sell_idx
          /\ \A k \in 1..(Len(trades) - 1) : trades[k].sell_idx < trades[k + 1].buy_idx
          /\ (trades # <<>> /\ pc \in {"loop", "done"}) => i > Last(trades).sell_idx
          /\ (trades # <<>> /\ pc = "hold") => hold.buy_idx > Last(trades).sell_idx)
    /\ [][/\ (pc = "loop" /\ pc' = "loop") => i' > i
          /\ (pc = "hold" /\ pc' = "hold") => hold'.j > hold.j /\ i' = i
          /\ (pc = "loop" /\ pc' = "hold") => hold'.buy_idx = i /\ hold'.j = i + 1
          /\ (pc = "hold" /\ pc' = "loop") => i' = Last(trades').sell_idx + 1 /\ i' > i]_vars
    /\ (pc = "start") ~> (pc \in {"done", "rejected"})

\* the call is over with two trades, the second entered on the bar after the
\* first was closed
C27_EntryRightAfterExit ==
    /\ pc = "done"
    /\ Len(trades) = 2
    /\ trades[2].buy_idx = trades[1].sell_idx + 1

----------------------------------------------------------------------------
(* main.py, n6.py: DataCache.get_history_data, batch_get_history_data,
   clear_expired_cache, called from two threads; a step of a call is what it
   does between two places where the other thread can run *)

\* ticks of CacheDuration seconds the clock makes
MaxTicks == 4

\* the columns of a DataFrame of qs.get_data
ProviderColumns == {"open", "high", "low", "close", "volume"}

\* the columns run_conservative_backtest writes into its series
ConservativeColumns == {"ma20", "ma60", "rsi", "signal"}

\* the columns backtest_stock_history writes into its series
HistoryColumns == {"ma5", "ma10", "ma20", "ma60", "tr", "atr"}

\* what qs.get_data does: a series, an empty one, None, an exception
Outcomes == {"data", "empty", "none", "raise"}

\* the age test with <= for <
FreshInclusive(current_time, cache_time) == current_time - cache_time <= CacheDuration * 2

\* current_time - cache_time < self.cache_duration * 2
Fresh(current_time, cache_time) == current_time - cache_time < CacheDuration * 2

\* current_time - cache_time > self.cache_duration * 3
Expired(current_time, cache_time) == current_time - cache_time > CacheDuration * 3

\* a store that keeps the entry a key already has
StoreIfAbsent(store, key, current_time, df) ==
    IF store[key] # NoEntry THEN store
    ELSE [store EXCEPT ![key] = [time |-> current_time, data |-> df]]

\* self.cache[cache_key] = (current_time, df)
Store(store, key, current_time, df) ==
    [store EXCEPT ![key] = [time |-> current_time, data |-> df]]

\* the calls after the objects under keys have been replaced or deleted:
\* a backtest that got one of them holds a series of its own
Detach(calls, keys) ==
    [c \in Callers |->
        IF calls[c].pc = "write" /\ Key(Head(calls[c].todo)) \in keys
        THEN [calls[c] EXCEPT !.cached = FALSE]
        ELSE calls[c]]

\* the call is through with a code of its list: a backtest goes on with the
\* series it got, a batch with its next code; without a series a backtest
\* returns None
Advance(r, got, fetched) ==
    IF r.op = "backtest" /\ got
    THEN [r EXCEPT !.pc = "write", !.now = 0, !.force = FALSE, !.cached = TRUE,
                   !.fetched = fetched]
    ELSE IF Tail(r.todo) = <<>> THEN Idle
    ELSE [r EXCEPT !.todo = Tail(r.todo), !.now = 0, !.pc = "check"]

\* a backtest calls get_history_data(code, start_date, end_date, force_refresh)
GetHistoryData(c) ==
    /\ callers[c].pc = "idle"
    /\ \E code \in Codes, force_refresh \in BOOLEAN :
         callers' = [callers EXCEPT ![c] =
                        [Idle EXCEPT !.pc = "check", !.op = "backtest", !.todo = <<code>>,
                                     !.force = force_refresh]]
    /\ UNCHANGED <<runVars, scanVars, cache, clock>>

\* batch_get_history_data(code_list, start_date, end_date) is called
BatchGetHistoryData(c) ==
    /\ callers[c].pc = "idle"
    /\ callers' = [callers EXCEPT ![c] =
                      [Idle EXCEPT !.pc = "check", !.op = "batch",
                                   !.todo = <<"000001", "600000">>]]
    /\ UNCHANGED <<runVars, scanVars, cache, clock>>

\* current_time = time.time() and the look into the cache: a fresh entry is
\* returned as it is stored, else the call goes to the provider
Check(c) ==
    /\ callers[c].pc = "check"
    /\ LET r == callers[c]
           entry == cache[Key(Head(r.todo))]
       IN  callers' = [callers EXCEPT ![c] =
                          IF ~r.force /\ entry # NoEntry /\ Fresh(clock, entry.time)
                          THEN Advance(r, TRUE, FALSE)
                          ELSE [r EXCEPT !.pc = "fetch", !.now = clock, !.force = FALSE]]
    /\ UNCHANGED <<runVars, scanVars, cache, clock>>

\* qs.get_data returns or raises; a series that is not empty is stored under
\* the time the call took at its start, and returned
Fetch(c) ==
    /\ callers[c].pc = "fetch"
    /\ LET r == callers[c]
           key == Key(Head(r.todo))
       IN  \E outcome \in Outcomes :
             IF outcome = "data"
             THEN /\ cache' = Store(cache, key, r.now, ProviderColumns)
                  /\ callers' = [Detach(callers, {key}) EXCEPT ![c] = Advance(r, TRUE, TRUE)]
             ELSE /\ callers' = [callers EXCEPT ![c] = Advance(r, FALSE, FALSE)]
                  /\ UNCHANGED cache
    /\ UNCHANGED <<runVars, scanVars, clock>>

\* clear_expired_cache()
ClearExpiredCache ==
    /\ \E c \in Callers : callers[c].pc = "idle"
    /\ LET expired_keys == {k \in DOMAIN cache :
                               cache[k] # NoEntry /\ Expired(clock, cache[k].time)}
       IN  /\ cache' = [k \in DOMAIN cache |->
                           IF k \in expired_keys THEN NoEntry ELSE cache[k]]
           /\ callers' = Detach(callers, expired_keys)
    /\ UNCHANGED <<runVars, scanVars, clock>>

\* the columns the backtest of the program writes: main.py's
\* run_conservative_backtest, n6.py's backtest_stock_history
BacktestColumns(program) ==
    IF program = "history" THEN HistoryColumns ELSE ConservativeColumns

\* a backtest writes its indicator columns into the series its call of
\* get_history_data returned, and is over
Backtest(c) ==
    /\ callers[c].pc = "write"
    /\ callers' = [callers EXCEPT ![c] = Idle]
    /\ cache' = IF callers[c].cached
                THEN [cache EXCEPT ![Key(Head(callers[c].todo))].data =
                                      @ \cup BacktestColumns(prog)]
                ELSE cache
    /\ UNCHANGED <<runVars, scanVars, clock>>

\* time passes
Tick ==
    /\ clock < MaxTicks * CacheDuration
    /\ clock' = clock + CacheDuration
    /\ UNCHANGED <<runVars, scanVars, cache, callers>>

\* the cache of main.py, or that of n6.py
InitCache == Init /\ prog \in {"conservative", "history"}

NextCache ==
    \/ \E c \in Callers : GetHistoryData(c)
    \/ \E c \in Callers : BatchGetHistoryData(c)
    \/ \E c \in Callers : Check(c)
    \/ \E c \in Callers : Fetch(c)
    \/ ClearExpiredCache
    \/ \E c \in Callers : Backtest(c)
    \/ Tick

SpecCache == InitCache /\ [][NextCache]_vars

----------------------------------------------------------------------------
(* main.py: StockEngine._conservative_analysis, run_conservative_scanner;
   stock_sel.py: EnhancedStockScanner.enhanced_scanner *)

\* instruments a scanner analyses
MaxPool == 3

Scanners == {"run_conservative_scanner", "enhanced_scanner"}

\* total_score = trend_score + strength_score + valuation_score + volume_score,
\* over the values each part can take
ConservativeTotals ==
    {trend_score + strength_score + valuation_score + volume_score :
        trend_score \in {0, 10, 20, 30}, strength_score \in {0, 10, 20, 30},
        valuation_score \in {5, 10, 15, 20}, volume_score \in {5, 10, 20}}

\* if total_score >= 60
ScoreThreshold == 60

\* composite_score of a row of the pool, in whole points; the lowest is that
\* of an instrument without a series to score
CompositeScores == {12, 45, 70}

\* output_count, limit
OutputCounts == {2, 10}

\* the ways to put the rows in a line
Orders(scores) ==
    {order \in [1..Len(scores) -> 1..Len(scores)] :
        \A a, b \in 1..Len(scores) : a # b => order[a] # order[b]}

\* highest score first
Descending(scores, order) ==
    \A a, b \in 1..Len(scores) : a < b => scores[order[a]] >= scores[order[b]]

\* rows of one score in the order they were appended
TiesInOrder(scores, order) ==
    \A a, b \in 1..Len(scores) :
        (a < b /\ scores[order[a]] = scores[order[b]]) => order[a] < order[b]

\* sort_values('total_score', ascending=False): the default kind is
\* quicksort, which pandas does not promise to be stable, so rows of one score
\* come out in any order
SortValues(scores) == {order \in Orders(scores) : Descending(scores, order)}

\* nlargest(limit * 2, 'composite_score'), keep='first'
NLargest(scores) ==
    {order \in Orders(scores) : Descending(scores, order) /\ TiesInOrder(scores, order)}

\* .head(count)
Take(order, count) ==
    [k \in 1..(IF count < Len(order) THEN count ELSE Len(order)) |-> order[k]]

InitRank ==
    /\ twin = NoTwin
    /\ prog = "conservative"
    /\ pc = "start"
    /\ i = 0
    /\ n = 0
    /\ capital = Yuan(0)
    /\ position = 0
    /\ trades = <<>>
    /\ equity = <<>>
    /\ stop_price = 0
    /\ entry_price = 0
    /\ signals = 0
    /\ market_len = -1
    /\ volume_column = FALSE
    /\ hold = NoHold
    /\ result = NoResult
    /\ bar = NoBar
    /\ ColdCache
    /\ scanner \in Scanners
    /\ results = <<>>
    /\ ranked = <<>>

\* batch_analyze_stocks: _conservative_analysis of one stock; its row is
\* appended if it is not None
ConservativeAnalysis ==
    /\ scanner = "run_conservative_scanner" /\ pc = "start"
    /\ Len(results) < MaxPool
    /\ \E total_score \in ConservativeTotals :
         results' = IF total_score >= ScoreThreshold
                    THEN Append(results, total_score)
                    ELSE results
    /\ UNCHANGED <<runVars, cacheVars, scanner, ranked>>

\* result_df.sort_values('total_score', ascending=False).head(output_count)
RunConservativeScanner ==
    /\ scanner = "run_conservative_scanner" /\ pc = "start"
    /\ pc' = "done"
    /\ \E order \in SortValues(results), output_count \in OutputCounts :
         ranked' = Take(order, output_count)
    /\ UNCHANGED <<twin, prog, i, n, capital, position, trades, equity, stop_price,
                   entry_price, signals, market_len, volume_column, hold, result, bar,
                   cacheVars, scanner, results>>

\* enhanced_scanner: the composite score of one row of the pool
EnhancedScore ==
    /\ scanner = "enhanced_scanner" /\ pc = "start"
    /\ Len(results) < MaxPool
    /\ \E composite_score \in CompositeScores : results' = Append(results, composite_score)
    /\ UNCHANGED <<runVars, cacheVars, scanner, ranked>>

\* pool.nlargest(limit * 2, 'composite_score'), then .head(limit)
EnhancedScanner ==
    /\ scanner = "enhanced_scanner" /\ pc = "start"
    /\ results # <<>>
    /\ pc' = "done"
    /\ \E order \in NLargest(results), limit \in OutputCounts :
         ranked' = Take(Take(order, limit * 2), limit)
    /\ UNCHANGED <<twin, prog, i, n, capital, position, trades, equity, stop_price,
                   entry_price, signals, market_len, volume_column, hold, result, bar,
                   cacheVars, scanner, results>>

NextRank ==
    \/ ConservativeAnalysis
    \/ RunConservativeScanner
    \/ EnhancedScore
    \/ EnhancedScanner

SpecRank == InitRank /\ [][NextRank]_vars

\* C23 as stated: a scanner lists an instrument only if its score clears the
\* fixed threshold, the list is in the order of the score, highest first, and
\* instruments of one score are listed in the order they were appended.
C23_AsStated ==
    (scanner \in Scanners /\ pc = "done") =>
        /\ \A k \in 1..Len(ranked) : results[ranked[k]] >= ScoreThreshold
        /\ \A a, b \in 1..Len(ranked) :
              a < b => \/ results[ranked[a]] > results[ranked[b]]
                       \/ results[ranked[a]] = results[ranked[b]] /\ ranked[a] < ranked[b]

\* the key a call is at
KeyAt(c) == Key(Head(callers[c].todo))

\* the caller's look into the cache is this step
Looks(c) == callers[c].pc = "check" /\ callers'[c] # callers[c]

\* the caller's provider call comes back in this step
Comes(c) == callers[c].pc = "fetch" /\ callers'[c] # callers[c]

\* C22 as stated: a series the cache holds is read-only to the backtests: the
\* cached object has the columns it was stored with, whatever backtests have
\* run on it.
C22_AsStated ==
    \A k \in DOMAIN cache : cache[k] # NoEntry => cache[k].data = ProviderColumns

\* C24: the cache does not keep two calls from fetching the same key: a call
\* of get_history_data or batch_get_history_data that finds its key absent,
\* stale or refreshed by force goes to the provider whatever the other call
\* is doing, and a series that comes back is stored over what the key holds,
\* so the key holds the result stored last.
C24_NoSingleFlight ==
    [][\A c \in Callers :
         /\ (Looks(c) /\ ( \/ callers[c].force
                           \/ cache[KeyAt(c)] = NoEntry
                           \/ ~Fresh(clock, cache[KeyAt(c)].time)))
               => callers'[c] = [callers[c] EXCEPT !.pc = "fetch", !.now = clock,
                                                   !.force = FALSE]
         /\ (Comes(c) /\ callers'[c].pc = "write")
               => /\ cache'[KeyAt(c)] = [time |-> callers[c].now, data |-> ProviderColumns]
                  /\ callers'[c].cached /\ callers'[c].fetched
                  /\ \A d \in Callers \ {c} :
                        (callers[d].pc = "write" /\ KeyAt(d) = KeyAt(c)) => ~callers'[d].cached
         /\ (Comes(c) /\ cache' # cache)
               => cache' = Store(cache, KeyAt(c), callers[c].now, ProviderColumns)]_vars

\* two backtests went to the provider for one code, neither forced; each has
\* a series of its own, and the cache holds the one stored last
C24_TwoFetchesOneKey ==
    /\ \A c \in Callers : callers[c].pc = "write" /\ callers[c].fetched
    /\ KeyAt(1) = KeyAt(2)
    /\ callers[1].cached # callers[2].cached
    /\ cache[KeyAt(1)].time = clock

\* C30: under a clock that never goes back, a series is returned from the
\* cache only at an age below 2 * cache_duration; clear_expired_cache deletes
\* an entry only at an age above 3 * cache_duration, so an entry between the
\* two stays stored and is not served; a provider call that fails or comes
\* back empty returns no series and leaves the cache as it is.
C30_CacheAges ==
    /\ [](\A k \in DOMAIN cache : cache[k] # NoEntry => cache[k].time \in 0..clock)
    /\ [][clock' >= clock]_vars
    /\ [][\A c \in Callers :
            /\ (Looks(c) /\ callers'[c].pc # "fetch")
                  => /\ cache[KeyAt(c)] # NoEntry
                     /\ clock - cache[KeyAt(c)].time < 2 * CacheDuration
            /\ (Looks(c) /\ cache[KeyAt(c)] # NoEntry
                         /\ clock - cache[KeyAt(c)].time >= 2 * CacheDuration)
                  => callers'[c].pc = "fetch" /\ cache' = cache
            /\ (Comes(c) /\ callers[c].op = "backtest" /\ callers'[c].pc # "write")
                  => callers'[c] = Idle /\ cache' = cache]_vars
    /\ [][\A k \in DOMAIN cache :
            (cache[k] # NoEntry /\ cache'[k] = NoEntry)
               => clock - cache[k].time > 3 * CacheDuration]_vars

\* an entry of age 3 * cache_duration is still stored, and the call that
\* looked for it is at the provider
C30_StaleEntryKept ==
    \E c \in Callers :
        /\ callers[c].pc = "fetch"
        /\ callers[c].now = clock
        /\ cache[KeyAt(c)] # NoEntry
        /\ clock - cache[KeyAt(c)].time = 3 * CacheDuration

====
